---- MODULE Spec2Model ----
(***************************************************************************)
(* Model of the BAP server's transaction correlation store (store.js),     *)
(* the Beckn callback routes that write to it, the /api/search dispatcher  *)
(* that creates its records, and the signing and verification of the       *)
(* Authorization header (sign.js, verify.js).                              *)
(*                                                                         *)
(* The specifications share the store operators:                           *)
(*   Spec      the store module driven through its exported functions;     *)
(*   SpecClock the same with the clock advancing between the calls;        *)
(*   SpecHttp  the server: /api/search and the callback routes, each       *)
(*             callback handled in one synchronous step;                   *)
(*   SpecConc  /api/search and on_search handlers whose middleware steps   *)
(*             (verifyAuth, validateBecknContext, handler) interleave;     *)
(*   SpecCrypto the functions of sign.js and verify.js called one by one;   *)
(*   SpecCaller the store with a caller that writes to the records the     *)
(*             store returned and creates transactions again;              *)
(*   SpecDispatch /api/search and the order routes (/api/select, init,     *)
(*             confirm, status, cancel) with the requests they hand to the *)
(*             network;                                                    *)
(*   SpecEnv   signing and verification with the keys of process.env, as   *)
(*             the dispatcher and the callback middleware call them;       *)
(*   SpecSubscribe POST /on_subscribe and the challenge round trip of      *)
(*             test-crypto.js;                                             *)
(*   SpecLifecycle the store's calls and a holder of a record that marks   *)
(*             it confirmed or cancelled;                                  *)
(*   SpecFields verification of headers that differ in keyId, algorithm    *)
(*             and headers;                                                *)
(*   SpecLoading the polling effect of the mobile loading screen.          *)
(***************************************************************************)
EXTENDS Integers, Sequences, FiniteSets, TLC

\* ---------------------------------------------------------------- bounds
MaxLog == 2          \* callback payloads stored over all transactions
MaxNow == 1          \* last clock value

\* ---------------------------------------------------------------- inputs
TxnIds == {"T1", "T2"}
MsgIds == {"m1", "m2"}
SearchPayloads == {"sA"}
Payloads == {"pA", "pB"}
NoTxn == "none"      \* context.transaction_id absent (undefined)
Null == "null"       \* the store's not-found value

ListFields == {"catalogs", "selections", "initResults", "statusResults", "errors"}

VARIABLES
    transactions,    \* store.transactions: transactionId -> record
    arrived,         \* history: per id and list, the payloads of the add* calls since creation
    now,             \* the clock read by new Date(); it advances in SpecClock only
    ret,             \* Spec: value the last store call returned to its caller, Null or a reference (the id) to the stored record
    devMode,         \* process.env.DEV_MODE === 'true'
    processEnv,      \* process.env: SUBSCRIBER_ID, UNIQUE_KEY_ID, PRIVATE_KEY, PUBLIC_KEY
    call,            \* SpecCrypto: the last call of a crypto function, with its arguments and result
    sent,            \* requests handed to the network: [action, txn, msg, sp]
    pending,         \* /api requests awaiting the network's answer
    http,            \* the last HTTP response the server produced: status, ack status, error code
    cb               \* SpecConc: the on_search requests in progress

vars == <<transactions, arrived, now, ret, devMode, processEnv, call, sent, pending, http, cb>>

\* ================================================================ store.js

EmptyStore == [k \in {} |-> Null]

NoArrivals == [id \in TxnIds |-> [f \in ListFields |-> <<>>]]

NewTransaction(transactionId, messageId, searchPayload, t) ==
    [transactionId |-> transactionId,
     messageId     |-> messageId,
     status        |-> "searching",
     search        |-> searchPayload,
     catalogs      |-> <<>>,
     selections    |-> <<>>,
     initResults   |-> <<>>,
     statusResults |-> <<>>,
     errors        |-> <<>>,
     createdAt     |-> t,
     updatedAt     |-> t]

\* mutant: a record that exists keeps its lists and its creation time
createTransaction_Merge(txns, transactionId, messageId, searchPayload, t) ==
    [k \in DOMAIN txns \cup {transactionId} |->
        IF k # transactionId THEN txns[k]
        ELSE IF k \in DOMAIN txns
        THEN [txns[k] EXCEPT !.messageId = messageId, !.search = searchPayload,
                             !.status = "searching", !.updatedAt = t]
        ELSE NewTransaction(transactionId, messageId, searchPayload, t)]

\* mutant: a record that exists is kept
createTransaction_KeepExisting(txns, transactionId, messageId, searchPayload, t) ==
    IF transactionId \in DOMAIN txns THEN txns
    ELSE [k \in DOMAIN txns \cup {transactionId} |->
            IF k = transactionId
            THEN NewTransaction(transactionId, messageId, searchPayload, t)
            ELSE txns[k]]

createTransaction(txns, transactionId, messageId, searchPayload, t) ==
    [k \in DOMAIN txns \cup {transactionId} |->
        IF k = transactionId
        THEN NewTransaction(transactionId, messageId, searchPayload, t)
        ELSE txns[k]]

\* store.transactions[transactionId] || null, as a reference to the stored record
getTransaction(txns, transactionId) ==
    IF transactionId \in DOMAIN txns THEN transactionId ELSE Null

\* mutant: a catalog moves the status forward only, from 'searching'
addCatalogData_ForwardOnly(txns, transactionId, catalogData, t) ==
    IF transactionId \notin DOMAIN txns THEN txns
    ELSE [txns EXCEPT ![transactionId] =
            [@ EXCEPT !.catalogs = Append(@, catalogData),
                      !.status = IF @ = "searching" THEN "results_ready" ELSE @,
                      !.updatedAt = t]]

\* mutant: the catalog list holds the latest callback only
addCatalogData_Overwrite(txns, transactionId, catalogData, t) ==
    IF transactionId \notin DOMAIN txns THEN txns
    ELSE [txns EXCEPT ![transactionId] =
            [@ EXCEPT !.catalogs = <<catalogData>>,
                      !.status = "results_ready",
                      !.updatedAt = t]]

addCatalogData(txns, transactionId, catalogData, t) ==
    IF transactionId \notin DOMAIN txns THEN txns
    ELSE [txns EXCEPT ![transactionId] =
            [@ EXCEPT !.catalogs = Append(@, catalogData),
                      !.status = "results_ready",
                      !.updatedAt = t]]

\* mutant: the update is stamped on every record of the store
addSelectData_StampsAll(txns, transactionId, selectData, t) ==
    IF transactionId \notin DOMAIN txns THEN txns
    ELSE [k \in DOMAIN txns |->
            IF k = transactionId
            THEN [txns[k] EXCEPT !.selections = Append(@, selectData),
                                 !.status = "selected",
                                 !.updatedAt = t]
            ELSE [txns[k] EXCEPT !.updatedAt = t]]

\* mutant: a select callback for an unknown id creates the record
addSelectData_Upsert(txns, transactionId, selectData, t) ==
    [k \in DOMAIN txns \cup {transactionId} |->
        IF k = transactionId
        THEN [(IF k \in DOMAIN txns THEN txns[k] ELSE NewTransaction(k, Null, Null, t))
                EXCEPT !.selections = Append(@, selectData),
                       !.status = "selected",
                       !.updatedAt = t]
        ELSE txns[k]]

addSelectData(txns, transactionId, selectData, t) ==
    IF transactionId \notin DOMAIN txns THEN txns
    ELSE [txns EXCEPT ![transactionId] =
            [@ EXCEPT !.selections = Append(@, selectData),
                      !.status = "selected",
                      !.updatedAt = t]]

\* mutant: the status moves forward only, from 'selected' to 'initialized'
addInitData_Guarded(txns, transactionId, initData, t) ==
    IF transactionId \notin DOMAIN txns THEN txns
    ELSE [txns EXCEPT ![transactionId] =
            [@ EXCEPT !.initResults = Append(@, initData),
                      !.status = IF @ = "selected" THEN "initialized" ELSE @,
                      !.updatedAt = t]]

addInitData(txns, transactionId, initData, t) ==
    IF transactionId \notin DOMAIN txns THEN txns
    ELSE [txns EXCEPT ![transactionId] =
            [@ EXCEPT !.initResults = Append(@, initData),
                      !.status = "initialized",
                      !.updatedAt = t]]

\* mutant: the newest status update is put first
addStatusData_Prepend(txns, transactionId, statusData, t) ==
    IF transactionId \notin DOMAIN txns THEN txns
    ELSE [txns EXCEPT ![transactionId] =
            [@ EXCEPT !.statusResults = <<statusData>> \o @,
                      !.updatedAt = t]]

\* mutant: a status update sets the status like the other add* functions
addStatusData_SetsStatus(txns, transactionId, statusData, t) ==
    IF transactionId \notin DOMAIN txns THEN txns
    ELSE [txns EXCEPT ![transactionId] =
            [@ EXCEPT !.statusResults = Append(@, statusData),
                      !.status = "status_updated",
                      !.updatedAt = t]]

addStatusData(txns, transactionId, statusData, t) ==
    IF transactionId \notin DOMAIN txns THEN txns
    ELSE [txns EXCEPT ![transactionId] =
            [@ EXCEPT !.statusResults = Append(@, statusData),
                      !.updatedAt = t]]

\* mutant: an error for an unknown id creates the record
addErrorData_Upsert(txns, transactionId, errorData, t) ==
    [k \in DOMAIN txns \cup {transactionId} |->
        IF k = transactionId
        THEN [(IF k \in DOMAIN txns THEN txns[k] ELSE NewTransaction(k, Null, Null, t))
                EXCEPT !.errors = Append(@, errorData),
                       !.status = "error",
                       !.updatedAt = t]
        ELSE txns[k]]

\* mutant: an error resets what the transaction had collected
addErrorData_Clears(txns, transactionId, errorData, t) ==
    IF transactionId \notin DOMAIN txns THEN txns
    ELSE [txns EXCEPT ![transactionId] =
            [@ EXCEPT !.errors = Append(@, errorData),
                      !.catalogs = <<>>,
                      !.status = "error",
                      !.updatedAt = t]]

addErrorData(txns, transactionId, errorData, t) ==
    IF transactionId \notin DOMAIN txns THEN txns
    ELSE [txns EXCEPT ![transactionId] =
            [@ EXCEPT !.errors = Append(@, errorData),
                      !.status = "error",
                      !.updatedAt = t]]

\* mutant: the call returns the record slot without the not-found test
addResult_NoNull(txns, transactionId) == transactionId

\* the value an add* call returns: null when the id is unknown, else the record
addResult(txns, transactionId) ==
    IF transactionId \notin DOMAIN txns THEN Null ELSE transactionId

getAllTransactionIds(txns) == DOMAIN txns

\* ---------------------------------------------------------------- helpers of the model

RECURSIVE SumLen(_, _)
SumLen(rec, fields) ==
    IF fields = {} THEN 0
    ELSE LET f == CHOOSE x \in fields : TRUE
         IN  Len(rec[f]) + SumLen(rec, fields \ {f})

RECURSIVE StoredIn(_, _)
StoredIn(txns, ids) ==
    IF ids = {} THEN 0
    ELSE LET i == CHOOSE x \in ids : TRUE
         IN  SumLen(txns[i], ListFields) + StoredIn(txns, ids \ {i})

TotalStored == StoredIn(transactions, DOMAIN transactions)

\* an add* call for id may run: it appends nothing, or there is room for one more payload
Room(id) == id \notin DOMAIN transactions \/ TotalStored < MaxLog

Arrive(id, field, payload) ==
    arrived' = IF id \in DOMAIN transactions
               THEN [arrived EXCEPT ![id][field] = Append(@, payload)]
               ELSE arrived

\* ================================================================ helpers.js: responses

NoResponse == [status |-> 0, ack |-> "none", code |-> "none"]

\* res.json(buildAckResponse(context)): HTTP 200, message.ack.status 'ACK'
buildAckResponse == [status |-> 200, ack |-> "ACK", code |-> "none"]

\* res.json(buildNackResponse(context, code, ..)): HTTP 200, 'NACK' and error.code
buildNackResponse(errorCode) == [status |-> 200, ack |-> "NACK", code |-> errorCode]

\* res.status(400).json({error: {type: 'PROTOCOL-ERROR', code: '400', ..}}): no ack at all
MissingContext == [status |-> 400, ack |-> "none", code |-> "400"]

\* the /api/* answers: res.json({success: true, ..}) and res.status(n).json({error: ..})
ApiResponse(status) == [status |-> status, ack |-> "none", code |-> "none"]

\* ================================================================ strings and bytes

\* a string is the sequence of its characters, a byte array the sequence of its bytes

\* the printable ASCII characters in code order: from the space (32) to the underscore
\* (95), and from a (97) to the tilde (126)
AsciiLow ==
    <<" ", "!", "\"", "#", "$", "%", "&", "'", "(", ")", "*", "+", ",", "-", ".", "/",
      "0", "1", "2", "3", "4", "5", "6", "7", "8", "9", ":", ";", "<", "=", ">", "?",
      "@", "A", "B", "C", "D", "E", "F", "G", "H", "I", "J", "K", "L", "M", "N", "O",
      "P", "Q", "R", "S", "T", "U", "V", "W", "X", "Y", "Z", "[", "\\", "]", "^", "_">>

AsciiHigh ==
    <<"a", "b", "c", "d", "e", "f", "g", "h", "i", "j", "k", "l", "m", "n", "o", "p",
      "q", "r", "s", "t", "u", "v", "w", "x", "y", "z", "{", "|", "}", "~">>

Chars == {AsciiLow[i] : i \in DOMAIN AsciiLow} \cup {AsciiHigh[i] : i \in DOMAIN AsciiHigh} \cup {"\n"}

\* the UTF-8 code of an ASCII character
charCode ==
    [c \in Chars |->
        IF c = "\n" THEN 10
        ELSE IF \E i \in DOMAIN AsciiLow : AsciiLow[i] = c
        THEN 31 + (CHOOSE i \in DOMAIN AsciiLow : AsciiLow[i] = c)
        ELSE 96 + (CHOOSE i \in DOMAIN AsciiHigh : AsciiHigh[i] = c)]

\* naclUtil.decodeUTF8: the bytes of a string
decodeUTF8(s) == [i \in DOMAIN s |-> charCode[s[i]]]

\* the base64 alphabet, in value order
Base64Alphabet ==
    <<"A", "B", "C", "D", "E", "F", "G", "H", "I", "J", "K", "L", "M", "N", "O", "P",
      "Q", "R", "S", "T", "U", "V", "W", "X", "Y", "Z", "a", "b", "c", "d", "e", "f",
      "g", "h", "i", "j", "k", "l", "m", "n", "o", "p", "q", "r", "s", "t", "u", "v",
      "w", "x", "y", "z", "0", "1", "2", "3", "4", "5", "6", "7", "8", "9", "+", "/">>

Base64Chars == {Base64Alphabet[i] : i \in DOMAIN Base64Alphabet}

base64Value == [c \in Base64Chars |-> (CHOOSE i \in DOMAIN Base64Alphabet : Base64Alphabet[i] = c) - 1]

\* a thrown exception, where a byte array or a string was expected
Throw == <<-1>>

\* naclUtil.encodeBase64: three bytes to four characters, the last group padded with "="
RECURSIVE encodeBase64(_)
encodeBase64(bytes) ==
    IF Len(bytes) = 0 THEN <<>>
    ELSE IF Len(bytes) = 1
    THEN <<Base64Alphabet[(bytes[1] \div 4) + 1],
           Base64Alphabet[((bytes[1] % 4) * 16) + 1], "=", "=">>
    ELSE IF Len(bytes) = 2
    THEN <<Base64Alphabet[(bytes[1] \div 4) + 1],
           Base64Alphabet[((bytes[1] % 4) * 16 + (bytes[2] \div 16)) + 1],
           Base64Alphabet[((bytes[2] % 16) * 4) + 1], "=">>
    ELSE <<Base64Alphabet[(bytes[1] \div 4) + 1],
           Base64Alphabet[((bytes[1] % 4) * 16 + (bytes[2] \div 16)) + 1],
           Base64Alphabet[((bytes[2] % 16) * 4 + (bytes[3] \div 64)) + 1],
           Base64Alphabet[(bytes[3] % 64) + 1]>>
         \o encodeBase64(SubSeq(bytes, 4, Len(bytes)))

\* validateBase64 of tweetnacl-util: /^(?:[A-Za-z0-9+\/]{2}[A-Za-z0-9+\/=]{2})*$/
validateBase64(s) ==
    /\ Len(s) % 4 = 0
    /\ \A i \in DOMAIN s :
          s[i] \in Base64Chars \/ (s[i] = "=" /\ (i % 4 = 3 \/ i % 4 = 0))

\* the bytes of the four-character groups of a valid encoding; decoding ends at a "="
RECURSIVE decodeGroups(_)
decodeGroups(s) ==
    IF Len(s) = 0 THEN <<>>
    ELSE LET a == base64Value[s[1]]
             b == base64Value[s[2]]
         IN  IF s[3] = "=" THEN <<a * 4 + (b \div 16)>>
             ELSE LET c == base64Value[s[3]]
                  IN  IF s[4] = "="
                      THEN <<a * 4 + (b \div 16), (b % 16) * 16 + (c \div 4)>>
                      ELSE <<a * 4 + (b \div 16), (b % 16) * 16 + (c \div 4),
                             (c % 4) * 64 + base64Value[s[4]]>>
                           \o decodeGroups(SubSeq(s, 5, Len(s)))

\* naclUtil.decodeBase64: throws on a string that is no base64 encoding
decodeBase64(s) == IF validateBase64(s) THEN decodeGroups(s) ELSE Throw

\* ================================================================ hashing and ed25519 (node crypto, tweetnacl)

\* A cryptographic hash, scaled down to three bytes: two checksums over the tree of
\* halves of the input, and the length.
RECURSIVE checksum(_, _, _)
checksum(bytes, factor, modulus) ==
    IF Len(bytes) = 0 THEN 1
    ELSE IF Len(bytes) = 1 THEN (bytes[1] * factor + 7) % modulus
    ELSE LET half == Len(bytes) \div 2
             left == checksum(SubSeq(bytes, 1, half), factor, modulus)
             right == checksum(SubSeq(bytes, half + 1, Len(bytes)), factor, modulus)
         IN  (left * left + left * factor + right * 3 + Len(bytes)) % modulus

\* crypto.createHash('sha256').update(body).digest()
sha256(bytes) == <<checksum(bytes, 31, 251), checksum(bytes, 17, 241), Len(bytes) % 256>>

\* the hash inside ed25519 (SHA-512), scaled down the same way
sha512(bytes) == <<checksum(bytes, 29, 239), checksum(bytes, 13, 233), Len(bytes) % 256>>

\* An ed25519 key pair, scaled down: a public key of two bytes, determined by the seed,
\* and a secret key of four bytes whose second half is the public key.
keyPairFromSeed(seed) ==
    [publicKey |-> <<seed[1] + 100, seed[2]>>,
     secretKey |-> seed \o <<seed[1] + 100, seed[2]>>]

\* nacl.sign.detached throws on a secret key of the wrong size
signThrows(secretKey) == Len(secretKey) # 4

\* nacl.sign.detached: deterministic, bound to the key and to the hash of the message
nacl_sign_detached(messageBytes, secretKey) ==
    SubSeq(secretKey, 3, 4) \o sha512(SubSeq(secretKey, 3, 4) \o messageBytes)

\* nacl.sign.detached.verify throws on a signature or a public key of the wrong size
verifyThrows(signature, publicKey) == Len(signature) # 5 \/ Len(publicKey) # 2

\* nacl.sign.detached.verify: true exactly for the signature that the holder of the
\* secret key of publicKey makes for the message
nacl_sign_detached_verify(messageBytes, signature, publicKey) ==
    signature = publicKey \o sha512(publicKey \o messageBytes)

\* ================================================================ JavaScript numbers and strings

Digits == <<"0", "1", "2", "3", "4", "5", "6", "7", "8", "9">>

\* a number is an integer or NaN
Number(n) == [nan |-> FALSE, value |-> n]
NaN == [nan |-> TRUE, value |-> 0]

RECURSIVE decimal(_)
decimal(n) == IF n < 10 THEN <<Digits[n + 1]>> ELSE decimal(n \div 10) \o <<Digits[(n % 10) + 1]>>

\* `${x}` of a number
numberToString(x) ==
    IF x.nan THEN <<"N", "a", "N">>
    ELSE IF x.value < 0 THEN <<"-">> \o decimal(0 - x.value)
    ELSE decimal(x.value)

digitValue(c) == (CHOOSE i \in DOMAIN Digits : Digits[i] = c) - 1

\* the value of the digits at the head of s, continuing from acc
RECURSIVE digitsValue(_, _)
digitsValue(s, acc) ==
    IF Len(s) = 0 \/ s[1] \notin {Digits[i] : i \in DOMAIN Digits} THEN acc
    ELSE digitsValue(Tail(s), acc * 10 + digitValue(s[1]))

RECURSIVE trimStart(_)
trimStart(s) == IF Len(s) > 0 /\ s[1] = " " THEN trimStart(Tail(s)) ELSE s

\* parseInt(s, 10): leading blanks, a sign, then digits up to the first other character
parseInt(s) ==
    LET t == trimStart(s)
        negative == Len(t) > 0 /\ t[1] = "-"
        u == IF Len(t) > 0 /\ t[1] \in {"-", "+"} THEN Tail(t) ELSE t
    IN  IF Len(u) = 0 \/ u[1] \notin {Digits[i] : i \in DOMAIN Digits} THEN NaN
        ELSE Number(IF negative THEN 0 - digitsValue(u, 0) ELSE digitsValue(u, 0))

\* header.startsWith(prefix)
startsWith(s, prefix) == Len(s) >= Len(prefix) /\ SubSeq(s, 1, Len(prefix)) = prefix

\* ================================================================ sign.js, verify.js

\* createDigest: the label BLAKE-512 on a SHA-256 hash of the body string
createDigest(body) ==
    <<"B", "L", "A", "K", "E", "-", "5", "1", "2", "=">> \o encodeBase64(sha256(decodeUTF8(body)))

createSigningString(created, expires, digest) ==
    <<"(", "c", "r", "e", "a", "t", "e", "d", ")", ":", " ">> \o numberToString(created)
    \o <<"\n", "(", "e", "x", "p", "i", "r", "e", "s", ")", ":", " ">> \o numberToString(expires)
    \o <<"\n", "d", "i", "g", "e", "s", "t", ":", " ">> \o digest

\* sign: throws when the private key is no base64 or has the wrong size
sign(message, privateKeyBase64) ==
    LET privateKey == decodeBase64(privateKeyBase64)
        messageBytes == decodeUTF8(message)
    IN  IF privateKey = Throw \/ signThrows(privateKey) THEN Throw
        ELSE encodeBase64(nacl_sign_detached(messageBytes, privateKey))

verify_AnyMessage(message, signatureBase64, publicKeyBase64) ==
    LET publicKey == decodeBase64(publicKeyBase64)
        signature == decodeBase64(signatureBase64)
    IN  IF publicKey = Throw \/ signature = Throw THEN FALSE
        ELSE IF verifyThrows(signature, publicKey) THEN FALSE
        ELSE SubSeq(signature, 1, 2) = publicKey

\* verify: false when decoding or the library throws
verify(message, signatureBase64, publicKeyBase64) ==
    LET publicKey == decodeBase64(publicKeyBase64)
        signature == decodeBase64(signatureBase64)
        messageBytes == decodeUTF8(message)
    IN  IF publicKey = Throw \/ signature = Throw THEN FALSE
        ELSE IF verifyThrows(signature, publicKey) THEN FALSE
        ELSE nacl_sign_detached_verify(messageBytes, signature, publicKey)

\* generateKeyPair: a fresh pair from the seed nacl draws, both keys base64-encoded
generateKeyPair(seed) ==
    [publicKey  |-> encodeBase64(keyPairFromSeed(seed).publicKey),
     privateKey |-> encodeBase64(keyPairFromSeed(seed).secretKey)]

TTL == 30

\* the header template of createAuthorizationHeader
encodeHeader(subscriberId, uniqueKeyId, created, expires, signature) ==
    <<"S", "i", "g", "n", "a", "t", "u", "r", "e", " ", "k", "e", "y", "I", "d",
          "=", "\"">> \o subscriberId \o <<"|">> \o uniqueKeyId
    \o <<"|", "e", "d", "2", "5", "5", "1", "9", "\"", ",">>
    \o <<"a", "l", "g", "o", "r", "i", "t", "h", "m", "=", "\"", "e", "d", "2", "5",
          "5", "1", "9", "\"", ",">>
    \o <<"c", "r", "e", "a", "t", "e", "d", "=", "\"">> \o numberToString(created) \o <<"\"", ",">>
    \o <<"e", "x", "p", "i", "r", "e", "s", "=", "\"">> \o numberToString(expires) \o <<"\"", ",">>
    \o <<"h", "e", "a", "d", "e", "r", "s", "=", "\"", "(", "c", "r", "e", "a", "t",
          "e", "d", ")", " ", "(", "e", "x", "p", "i", "r", "e", "s", ")", " ", "d",
          "i", "g", "e", "s", "t", "\"", ",">>
    \o <<"s", "i", "g", "n", "a", "t", "u", "r", "e", "=", "\"">> \o signature \o <<"\"">>

\* process.env: SUBSCRIBER_ID, UNIQUE_KEY_ID, PRIVATE_KEY, PUBLIC_KEY; <<>> is unset
DefaultSubscriberId ==
    <<"o", "n", "d", "c", "-", "l", "o", "g", "i", "s", "t", "i", "c", "s", "-",
          "b", "a", "p", ".", "e", "x", "a", "m", "p", "l", "e", ".", "c", "o", "m">>

DefaultUniqueKeyId == <<"k", "1">>

\* process.env when createAuthorizationHeader wrote the private key alone
configureKeys_PrivateOnly(env, seed) ==
    IF env.PRIVATE_KEY = <<>>
    THEN [env EXCEPT !.PRIVATE_KEY = generateKeyPair(seed).privateKey]
    ELSE env

\* process.env after createAuthorizationHeader: without a PRIVATE_KEY it holds the pair
\* generated from seed
configureKeys(env, seed) ==
    IF env.PRIVATE_KEY = <<>>
    THEN [env EXCEPT !.PRIVATE_KEY = generateKeyPair(seed).privateKey,
                     !.PUBLIC_KEY = generateKeyPair(seed).publicKey]
    ELSE env

\* the calls createAuthorizationHeader makes to itself: one after it configured a pair,
\* none when it finds a PRIVATE_KEY
RECURSIVE recursiveCalls(_, _)
recursiveCalls(env, seed) ==
    IF env.PRIVATE_KEY = <<>>
    THEN 1 + recursiveCalls(configureKeys(env, seed), seed)
    ELSE 0

\* createAuthorizationHeader(body) at time t; Throw when sign throws
createAuthorizationHeader(body, env, seed, t) ==
    LET subscriberId == IF env.SUBSCRIBER_ID = <<>> THEN DefaultSubscriberId ELSE env.SUBSCRIBER_ID
        uniqueKeyId == IF env.UNIQUE_KEY_ID = <<>> THEN DefaultUniqueKeyId ELSE env.UNIQUE_KEY_ID
        privateKey == configureKeys(env, seed).PRIVATE_KEY
        digest == createDigest(body)
        created == Number(t)
        expires == Number(t + TTL)
        signingString == createSigningString(created, expires, digest)
        signature == sign(signingString, privateKey)
    IN  IF signature = Throw THEN Throw
        ELSE encodeHeader(subscriberId, uniqueKeyId, created, expires, signature)

\* \w of the regular expression: [A-Za-z0-9_]
WordChars ==
    {"A", "B", "C", "D", "E", "F", "G", "H", "I", "J", "K", "L", "M", "N", "O", "P",
      "Q", "R", "S", "T", "U", "V", "W", "X", "Y", "Z", "a", "b", "c", "d", "e", "f",
      "g", "h", "i", "j", "k", "l", "m", "n", "o", "p", "q", "r", "s", "t", "u", "v",
      "w", "x", "y", "z", "0", "1", "2", "3", "4", "5", "6", "7", "8", "9", "_"}

\* the end of the longest run of word characters that starts at i
wordEnd(s, i) ==
    CHOOSE j \in i..(Len(s) + 1) :
        /\ j > Len(s) \/ s[j] \notin WordChars
        /\ \A k \in i..(j - 1) : s[k] \in WordChars

quoteAt_OrComma(s, i) ==
    CHOOSE j \in i..(Len(s) + 1) :
        /\ j > Len(s) \/ s[j] \in {"\"", ","}
        /\ \A k \in i..(j - 1) : s[k] \notin {"\"", ","}

\* the position of the first double quote at or after i, Len(s) + 1 if there is none
quoteAt(s, i) ==
    CHOOSE j \in i..(Len(s) + 1) :
        /\ j > Len(s) \/ s[j] = "\""
        /\ \A k \in i..(j - 1) : s[k] # "\""

\* (\w+)="([^"]+)" matches at position k: a run of word characters, =" , a run of
\* characters other than the double quote that is not empty, and a double quote
matchesAt(s, k) ==
    /\ s[k] \in WordChars
    /\ LET j == wordEnd(s, k)
       IN  /\ j + 1 <= Len(s)
           /\ s[j] = "="
           /\ s[j + 1] = "\""
           /\ quoteAt(s, j + 2) > j + 2
           /\ quoteAt(s, j + 2) <= Len(s)

\* The leftmost position at or after i where the expression matches, 0 if there is none.
\* A match that starts inside a run of word characters also matches from the run's first
\* character at or after i, so the leftmost match starts at i or at the start of a run.
exec(s, i) ==
    LET starts == {k \in i..Len(s) :
                      /\ k = i \/ s[k - 1] \notin WordChars
                      /\ matchesAt(s, k)}
    IN  IF starts = {} THEN 0 ELSE CHOOSE k \in starts : \A m \in starts : k <= m

NoParams == [k \in {} |-> <<>>]

\* while ((match = /(\w+)="([^"]+)"/g.exec(headerContent)) !== null) params[match[1]] = match[2]:
\* each match is recorded and the search goes on behind it
RECURSIVE regexExec(_, _, _)

\* params[match[1]] = match[2] for the match that starts at k, with its name up to j and
\* its value up to e, and the next exec
recordMatch(s, k, j, e, params) ==
    regexExec(s, e + 1,
              [n \in DOMAIN params \cup {SubSeq(s, k, j - 1)} |->
                  IF n = SubSeq(s, k, j - 1) THEN SubSeq(s, j + 2, e - 1) ELSE params[n]])

\* the body of the loop for the match at k; k = 0 is match === null
whileMatch(s, k, params) ==
    IF k = 0 THEN params
    ELSE recordMatch(s, k, wordEnd(s, k), quoteAt(s, wordEnd(s, k) + 2), params)

regexExec(s, i, params) == whileMatch(s, exec(s, i), params)

signaturePrefix ==
    <<"S", "i", "g", "n", "a", "t", "u", "r", "e", " ">>

parseAuthorizationHeader_RequiresPrefix(header) ==
    IF startsWith(header, signaturePrefix)
    THEN regexExec(SubSeq(header, Len(signaturePrefix) + 1, Len(header)), 1, NoParams)
    ELSE NoParams

parseAuthorizationHeader(header) ==
    LET headerContent == IF startsWith(header, signaturePrefix)
                         THEN SubSeq(header, Len(signaturePrefix) + 1, Len(header))
                         ELSE header
    IN  regexExec(headerContent, 1, NoParams)

\* the names of the parameters the verification reads
P_keyId == <<"k", "e", "y", "I", "d">>
P_signature == <<"s", "i", "g", "n", "a", "t", "u", "r", "e">>
P_created == <<"c", "r", "e", "a", "t", "e", "d">>
P_expires == <<"e", "x", "p", "i", "r", "e", "s">>
P_algorithm == <<"a", "l", "g", "o", "r", "i", "t", "h", "m">>
P_headers == <<"h", "e", "a", "d", "e", "r", "s">>

AuthResult(valid, error) == [valid |-> valid, error |-> error]

\* verifyAuthorizationHeader of a request with Authorization header authHeader (<<>> when
\* there is none) and body string bodyString, at time t, with PUBLIC_KEY publicKey
\* { valid: isValid, error: isValid ? undefined : 'Invalid signature' }
signatureResult(isValid) == AuthResult(isValid, IF isValid THEN "none" ELSE "Invalid signature")

verifyParams_SignatureFirst(params, bodyString, t, publicKey) ==
    IF ~({P_keyId, P_signature, P_created, P_expires} \subseteq DOMAIN params)
    THEN AuthResult(FALSE, "Malformed Authorization header")
    ELSE IF publicKey = <<>>
    THEN AuthResult(FALSE, "No public key configured for verification")
    ELSE IF ~verify(createSigningString(parseInt(params[P_created]),
                                        parseInt(params[P_expires]),
                                        createDigest(bodyString)),
                    params[P_signature], publicKey)
    THEN AuthResult(FALSE, "Invalid signature")
    ELSE IF ~parseInt(params[P_expires]).nan /\ t > parseInt(params[P_expires]).value
    THEN AuthResult(FALSE, "Authorization header expired")
    ELSE AuthResult(TRUE, "none")

\* mutant: the configured key is looked up before the expiry is checked
verifyParams_KeyBeforeExpiry(params, bodyString, t, publicKey) ==
    IF ~({P_keyId, P_signature, P_created, P_expires} \subseteq DOMAIN params)
    THEN AuthResult(FALSE, "Malformed Authorization header")
    ELSE IF publicKey = <<>>
    THEN AuthResult(FALSE, "No public key configured for verification")
    ELSE IF ~parseInt(params[P_expires]).nan /\ t > parseInt(params[P_expires]).value
    THEN AuthResult(FALSE, "Authorization header expired")
    ELSE signatureResult(verify(createSigningString(parseInt(params[P_created]),
                                                    parseInt(params[P_expires]),
                                                    createDigest(bodyString)),
                                params[P_signature], publicKey))

\* mutant: a header whose algorithm is not ed25519 is rejected
verifyParams_ChecksAlgorithm(params, bodyString, t, publicKey) ==
    IF ~({P_keyId, P_signature, P_created, P_expires} \subseteq DOMAIN params)
    THEN AuthResult(FALSE, "Malformed Authorization header")
    ELSE IF P_algorithm \notin DOMAIN params
            \/ params[P_algorithm] # <<"e", "d", "2", "5", "5", "1", "9">>
    THEN AuthResult(FALSE, "Malformed Authorization header")
    ELSE IF ~parseInt(params[P_expires]).nan /\ t > parseInt(params[P_expires]).value
    THEN AuthResult(FALSE, "Authorization header expired")
    ELSE IF publicKey = <<>>
    THEN AuthResult(FALSE, "No public key configured for verification")
    ELSE signatureResult(verify(createSigningString(parseInt(params[P_created]),
                                                    parseInt(params[P_expires]),
                                                    createDigest(bodyString)),
                                params[P_signature], publicKey))

\* the checks of the parsed header: its parameters, its expiry, the configured key, its
\* signature
verifyParams(params, bodyString, t, publicKey) ==
    IF ~({P_keyId, P_signature, P_created, P_expires} \subseteq DOMAIN params)
    THEN AuthResult(FALSE, "Malformed Authorization header")
    ELSE IF ~parseInt(params[P_expires]).nan /\ t > parseInt(params[P_expires]).value
    THEN AuthResult(FALSE, "Authorization header expired")
    ELSE IF publicKey = <<>>
    THEN AuthResult(FALSE, "No public key configured for verification")
    ELSE signatureResult(verify(createSigningString(parseInt(params[P_created]),
                                                    parseInt(params[P_expires]),
                                                    createDigest(bodyString)),
                                params[P_signature], publicKey))

\* mutant: DEV_MODE does not switch the verification off
verifyAuthorizationHeader_InEveryMode(authHeader, bodyString, dev, t, publicKey) ==
    IF authHeader = <<>> THEN AuthResult(FALSE, "Missing Authorization header")
    ELSE verifyParams(parseAuthorizationHeader(authHeader), bodyString, t, publicKey)

verifyAuthorizationHeader(authHeader, bodyString, dev, t, publicKey) ==
    IF dev THEN AuthResult(TRUE, "none")
    ELSE IF authHeader = <<>> THEN AuthResult(FALSE, "Missing Authorization header")
    ELSE verifyParams(parseAuthorizationHeader(authHeader), bodyString, t, publicKey)

\* ================================================================ inbound callback requests

Handlers == {"h1", "h2"}
NoCallbacks == [h \in Handlers |-> [pc |-> "idle"]]
NoCall == [fn |-> "none"]

\* The Authorization header of a callback request: who made it and the expires it
\* carries. keyHolder signs the body with the private key of the configured PUBLIC_KEY,
\* stranger with another key; tamperer's body was changed after the key holder signed it;
\* malformed is a header without a signature parameter; nobody sends no header.
AuthCases ==
    {[sender |-> s, expires |-> e] :
        s \in {"keyHolder", "stranger", "tamperer", "malformed"}, e \in 0..MaxNow}
    \cup {[sender |-> "nobody", expires |-> MaxNow]}

\* the headers of the requests that reach the routes: of each sender one that expires at
\* MaxNow, and the key holder's that expired at 0
RouteAuthCases ==
    {[sender |-> s, expires |-> MaxNow] :
        s \in {"keyHolder", "stranger", "tamperer", "malformed", "nobody"}}
    \cup {[sender |-> "keyHolder", expires |-> 0]}

\* a callback request: ctx says whether the body has a context and whether its
\* fields other than transaction_id pass validateContext
RequestsWith(payloads, auths) ==
    {r \in [txn : TxnIds \cup {NoTxn}, ctx : {"absent", "bad", "ok"},
            auth : auths, payload : payloads] :
        r.ctx = "absent" => r.txn = NoTxn}

\* the header the key holder made for the body, not yet expired
PassedAuth == [sender |-> "keyHolder", expires |-> MaxNow]

\* the requests that reach the routes: with the header that verifies, every body; with
\* any other header, a body without context and a body with a valid context for T1
Requests(payloads) ==
    {r \in RequestsWith(payloads, RouteAuthCases) :
        r.auth # PassedAuth => (r.ctx = "absent" \/ (r.ctx = "ok" /\ r.txn = "T1"))}

\* the characters of the ids and payloads
TokenChars ==
    [T1 |-> <<"T", "1">>, T2 |-> <<"T", "2">>, pA |-> <<"p", "A">>, pB |-> <<"p", "B">>]

\* JSON.stringify(req.body)
JSONstringify(req) ==
    <<"{">>
    \o (IF req.ctx = "absent" THEN <<>>
        ELSE <<"\"", "c", "o", "n", "t", "e", "x", "t", "\"", ":", "{">>
             \o (IF req.txn = NoTxn THEN <<>>
                 ELSE <<"\"", "t", "r", "a", "n", "s", "a", "c", "t", "i", "o", "n", "_", "i", "d",
          "\"", ":", "\"">>
                      \o TokenChars[req.txn] \o <<"\"", ",">>)
             \o (IF req.ctx = "ok" THEN <<"\"", "d", "o", "m", "a", "i", "n", "\"", ":", "\"", "O", "N", "D", "C", ":",
          "L", "O", "G", "1", "0", "\"">>
                 ELSE <<>>)
             \o <<"}", ",">>)
    \o <<"\"", "m", "e", "s", "s", "a", "g", "e", "\"", ":", "\"">> \o TokenChars[req.payload] \o <<"\"", "}">>

\* process.env of the server, and a key pair the server does not hold
ServerKeys == generateKeyPair(<<1, 2>>)
OtherKeys == generateKeyPair(<<3, 4>>)
ServerEnv ==
    [SUBSCRIBER_ID |-> <<>>, UNIQUE_KEY_ID |-> <<>>,
     PRIVATE_KEY |-> ServerKeys.privateKey, PUBLIC_KEY |-> ServerKeys.publicKey]

SenderId == <<"b", "p", "p">>

\* the header of a sender that signs body with privateKey; every sender sets created to 0
signedHeader(body, privateKey, expires) ==
    encodeHeader(SenderId, DefaultUniqueKeyId, Number(0), Number(expires),
                 sign(createSigningString(Number(0), Number(expires), createDigest(body)),
                      privateKey))

\* a header without signature
unsignedHeader(expires) ==
    <<"S", "i", "g", "n", "a", "t", "u", "r", "e", " ", "k", "e", "y", "I", "d",
      "=", "\"", "b", "p", "p", "|", "k", "1", "|", "e", "d", "2", "5", "5", "1",
      "9", "\"", ",", "c", "r", "e", "a", "t", "e", "d", "=", "\"", "0", "\"", ",",
      "e", "x", "p", "i", "r", "e", "s", "=", "\"">>
    \o numberToString(Number(expires)) \o <<"\"">>

\* req.headers.authorization, <<>> when the request has none: the key holder signs the
\* body, the stranger signs it with another key, the tamperer signs another body
authorization(req) ==
    CASE req.auth.sender = "nobody" -> <<>>
      [] req.auth.sender = "malformed" -> unsignedHeader(req.auth.expires)
      [] OTHER ->
            signedHeader(JSONstringify(req)
                            \o (IF req.auth.sender = "tamperer" THEN <<" ">> ELSE <<>>),
                         IF req.auth.sender = "stranger" THEN OtherKeys.privateKey
                         ELSE ServerKeys.privateKey,
                         req.auth.expires)

\* verifyAuthorizationHeader(req), tabulated for every header, body, DEV_MODE and time
authorizationResult ==
    [sender \in {"keyHolder", "stranger", "tamperer", "malformed", "nobody"} |->
     [expires \in 0..MaxNow |->
      [txn \in TxnIds \cup {NoTxn} |->
       [ctx \in {"absent", "bad", "ok"} |->
        [payload \in Payloads |->
         [dev \in BOOLEAN |->
          [t \in 0..MaxNow |->
            verifyAuthorizationHeader(
                authorization([txn |-> txn, ctx |-> ctx, payload |-> payload,
                               auth |-> [sender |-> sender, expires |-> expires]]),
                JSONstringify([txn |-> txn, ctx |-> ctx, payload |-> payload,
                               auth |-> [sender |-> sender, expires |-> expires]]),
                dev, t, ServerEnv.PUBLIC_KEY)]]]]]]]

\* ================================================================ Spec: the store driven through its exports

ServerIdle ==
    /\ devMode = FALSE
    /\ processEnv = ServerEnv
    /\ call = NoCall
    /\ sent = {}
    /\ pending = {}
    /\ http = NoResponse
    /\ cb = NoCallbacks

Init ==
    /\ transactions = EmptyStore
    /\ arrived = NoArrivals
    /\ now = 0
    /\ ret = Null
    /\ ServerIdle

server == <<devMode, processEnv, call, sent, pending, http, cb>>

Tick ==
    /\ now < MaxNow
    /\ now' = now + 1
    /\ UNCHANGED <<transactions, arrived, ret, server>>

CreateTransaction(id, msg, sp) ==
    /\ transactions' = createTransaction(transactions, id, msg, sp, now)
    /\ ret' = id
    /\ arrived' = [arrived EXCEPT ![id] = [f \in ListFields |-> <<>>]]
    /\ UNCHANGED <<now, server>>

GetTransaction(id) ==
    /\ ret' = getTransaction(transactions, id)
    /\ UNCHANGED <<transactions, arrived, now, server>>

AddCatalogData(id, p) ==
    /\ Room(id)
    /\ transactions' = addCatalogData(transactions, id, p, now)
    /\ ret' = addResult(transactions, id)
    /\ Arrive(id, "catalogs", p)
    /\ UNCHANGED <<now, server>>

AddSelectData(id, p) ==
    /\ Room(id)
    /\ transactions' = addSelectData(transactions, id, p, now)
    /\ ret' = addResult(transactions, id)
    /\ Arrive(id, "selections", p)
    /\ UNCHANGED <<now, server>>

AddInitData(id, p) ==
    /\ Room(id)
    /\ transactions' = addInitData(transactions, id, p, now)
    /\ ret' = addResult(transactions, id)
    /\ Arrive(id, "initResults", p)
    /\ UNCHANGED <<now, server>>

AddStatusData(id, p) ==
    /\ Room(id)
    /\ transactions' = addStatusData(transactions, id, p, now)
    /\ ret' = addResult(transactions, id)
    /\ Arrive(id, "statusResults", p)
    /\ UNCHANGED <<now, server>>

AddErrorData(id, p) ==
    /\ Room(id)
    /\ transactions' = addErrorData(transactions, id, p, now)
    /\ ret' = addResult(transactions, id)
    /\ Arrive(id, "errors", p)
    /\ UNCHANGED <<now, server>>

ClearAll ==
    /\ transactions' = EmptyStore
    /\ arrived' = NoArrivals
    /\ UNCHANGED <<now, ret, server>>

Next ==
    \/ ClearAll
    \/ \E id \in TxnIds, msg \in MsgIds, sp \in SearchPayloads : CreateTransaction(id, msg, sp)
    \/ \E id \in TxnIds : GetTransaction(id)
    \/ \E id \in TxnIds, p \in Payloads : AddCatalogData(id, p)
    \/ \E id \in TxnIds, p \in Payloads : AddSelectData(id, p)
    \/ \E id \in TxnIds, p \in Payloads : AddInitData(id, p)
    \/ \E id \in TxnIds, p \in Payloads : AddStatusData(id, p)
    \/ \E id \in TxnIds, p \in Payloads : AddErrorData(id, p)

Spec == Init /\ [][Next]_vars

\* ================================================================ SpecClock: the store's calls with time passing

HttpPayloads == {"pA"}

NextClock ==
    \/ Tick
    \/ ClearAll
    \/ \E id \in TxnIds, msg \in MsgIds, sp \in SearchPayloads : CreateTransaction(id, msg, sp)
    \/ \E id \in TxnIds : GetTransaction(id)
    \/ \E id \in TxnIds, p \in HttpPayloads : AddCatalogData(id, p)
    \/ \E id \in TxnIds, p \in HttpPayloads : AddSelectData(id, p)
    \/ \E id \in TxnIds, p \in HttpPayloads : AddInitData(id, p)
    \/ \E id \in TxnIds, p \in HttpPayloads : AddStatusData(id, p)
    \/ \E id \in TxnIds, p \in HttpPayloads : AddErrorData(id, p)

SpecClock == Init /\ [][NextClock]_vars

\* ================================================================ SpecHttp: the server's routes

\* const result = verifyAuthorizationHeader(req), at the time the request is handled
verifyRequest(req, dev) ==
    authorizationResult[req.auth.sender][req.auth.expires][req.txn][req.ctx][req.payload][dev][now]

\* validateContext(context).valid: every required field, transaction_id among them
validateContext(req) == req.ctx = "ok" /\ req.txn # NoTxn

\* res.json(..) / res.status(..).json(..) of a request that touches nothing else
Reject(response) ==
    /\ http' = response
    /\ UNCHANGED <<transactions, arrived, now, ret, devMode, processEnv, call, sent, pending>>

\* the outcome of a middleware: next() or the response that ends the request
CallNext == [status |-> 0, ack |-> "next", code |-> "none"]

verifyAuth_NextAnyway(req, dev) == CallNext

verifyAuth(req, dev) ==
    IF ~verifyRequest(req, dev).valid
    THEN buildNackResponse("401")
    ELSE CallNext

validateBecknContext(req, dev) ==
    IF req.ctx = "absent" THEN MissingContext
    ELSE IF ~validateContext(req) /\ ~dev THEN buildNackResponse("400")
    ELSE CallNext

Middleware(req, dev) ==
    IF verifyAuth(req, dev) # CallNext THEN verifyAuth(req, dev)
    ELSE validateBecknContext(req, dev)

\* the store function a route handler calls for the list it fills
storeAdd(field, txns, transactionId, data, t) ==
    CASE field = "catalogs"      -> addCatalogData(txns, transactionId, data, t)
      [] field = "selections"    -> addSelectData(txns, transactionId, data, t)
      [] field = "initResults"   -> addInitData(txns, transactionId, data, t)
      [] field = "statusResults" -> addStatusData(txns, transactionId, data, t)
      [] field = "errors"        -> addErrorData(txns, transactionId, data, t)

StoreHandler_NotFound(field, req) ==
    IF req.txn = NoTxn THEN Reject(buildNackResponse("404"))
    ELSE LET txn == addResult(transactions, req.txn)
         IN  /\ Room(req.txn)
             /\ transactions' = storeAdd(field, transactions, req.txn, req.payload, now)
             /\ Arrive(req.txn, field, req.payload)
             /\ http' = IF txn = Null THEN buildNackResponse("404")
                        ELSE buildAckResponse
             /\ UNCHANGED <<now, ret, devMode, processEnv, call, sent, pending>>

\* a route handler that stores the body with one of the store's add* functions
StoreHandler(field, req) ==
    IF req.txn = NoTxn THEN Reject(buildNackResponse("400"))
    ELSE LET txn == addResult(transactions, req.txn)
         IN  /\ Room(req.txn)
             /\ transactions' = storeAdd(field, transactions, req.txn, req.payload, now)
             /\ Arrive(req.txn, field, req.payload)
             /\ http' = IF txn = Null THEN buildNackResponse("404")
                        ELSE buildAckResponse
             /\ UNCHANGED <<now, ret, devMode, processEnv, call, sent, pending>>

\* router.post(route, verifyAuth, validateBecknContext, handler): the chain runs synchronously
Route(field, req) ==
    /\ IF Middleware(req, devMode) # CallNext
       THEN Reject(Middleware(req, devMode))
       ELSE StoreHandler(field, req)
    /\ UNCHANGED cb

OnSearch(req) == Route("catalogs", req)
OnSelect(req) == Route("selections", req)
OnInit(req)   == Route("initResults", req)
OnStatus(req) == Route("statusResults", req)

\* module.exports of store.js
StoreExports ==
    {"store", "createTransaction", "getTransaction", "addCatalogData", "addSelectData",
     "addInitData", "addStatusData", "addErrorData", "getAllTransactionIds", "clearAll"}

\* const txn = store.addX ? store.addX(transactionId, {context, message}) : null
\* for a function the store does not export: txn is null and nothing is stored
MissingStoreHandler(fn, req) ==
    IF req.txn = NoTxn THEN Reject(buildNackResponse("400"))
    ELSE /\ fn \notin StoreExports
         /\ Reject(buildNackResponse("404"))

OnConfirm(req) ==
    /\ IF Middleware(req, devMode) # CallNext
       THEN Reject(Middleware(req, devMode))
       ELSE MissingStoreHandler("addConfirmData", req)
    /\ UNCHANGED cb

OnCancel(req) ==
    /\ IF Middleware(req, devMode) # CallNext
       THEN Reject(Middleware(req, devMode))
       ELSE MissingStoreHandler("addCancelData", req)
    /\ UNCHANGED cb

\* on_error runs verifyAuth only, stores when there is a transaction_id, and always ACKs
OnError(req) ==
    /\ IF verifyAuth(req, devMode) # CallNext
       THEN Reject(verifyAuth(req, devMode))
       ELSE IF req.txn = NoTxn THEN Reject(buildAckResponse)
       ELSE /\ Room(req.txn)
            /\ transactions' = addErrorData(transactions, req.txn, req.payload, now)
            /\ Arrive(req.txn, "errors", req.payload)
            /\ http' = buildAckResponse
            /\ UNCHANGED <<now, ret, devMode, processEnv, call, sent, pending>>
    /\ UNCHANGED cb

\* ---------------------------------------------------------------- POST /api/search

\* crypto.randomUUID(): a value never generated before
generateTransactionId == TxnIds \ {s.txn : s \in sent}
\* mutant: an id that was used may come again
generateMessageId_Reused == MsgIds

generateMessageId == MsgIds \ {s.msg : s \in sent}

\* a PRIVATE_KEY that is no base64 string, and one that decodes to a key of the wrong size
MalformedKey == <<"a", "b", "c">>
ShortKey == encodeBase64(<<1, 2>>)

\* process.env of a server that dispatches: the keys configured, and a PRIVATE_KEY that
\* cannot be decoded
DispatchEnvs == {ServerEnv, [ServerEnv EXCEPT !.PRIVATE_KEY = MalformedKey]}

\* whether createAuthorizationHeader(payload) throws in sendBecknRequest; that depends on
\* the PRIVATE_KEY alone, not on the payload or the time, and with a PRIVATE_KEY set no
\* pair is generated from the seed
headerThrows ==
    [e \in DispatchEnvs |-> createAuthorizationHeader(<<"{", "}">>, e, <<5, 6>>, 0) = Throw]

\* pickup or drop missing: 400, nothing is sent
SearchBadRequest ==
    /\ Reject(ApiResponse(400))
    /\ UNCHANGED cb

\* mutant: the route records the transaction before it dispatches
SearchSend_RecordsFirst(sp) ==
    /\ ~headerThrows[processEnv]
    /\ \E txnId \in generateTransactionId, msgId \in generateMessageId :
        LET r == [action |-> "search", txn |-> txnId, msg |-> msgId, sp |-> sp]
        IN  /\ sent' = sent \cup {r}
            /\ pending' = pending \cup {r}
            /\ transactions' = createTransaction(transactions, txnId, msgId, sp, now)
            /\ arrived' = [arrived EXCEPT ![txnId] = [f \in ListFields |-> <<>>]]
            /\ UNCHANGED <<now, ret, devMode, processEnv, call, http, cb>>

\* becknService.search: ids generated, request signed and posted; the route awaits the answer
SearchSend(sp) ==
    /\ ~headerThrows[processEnv]
    /\ \E txnId \in generateTransactionId, msgId \in generateMessageId :
        LET r == [action |-> "search", txn |-> txnId, msg |-> msgId, sp |-> sp]
        IN  /\ sent' = sent \cup {r}
            /\ pending' = pending \cup {r}
            /\ UNCHANGED <<transactions, arrived, now, ret, devMode, processEnv, call, http, cb>>

\* createAuthorizationHeader threw in sendBecknRequest: nothing is posted, becknService.search
\* rejects, the route catches it and answers 500
SearchSignFailed(sp) ==
    /\ headerThrows[processEnv]
    /\ Reject(ApiResponse(500))
    /\ UNCHANGED cb

\* the network acknowledged: the route creates the transaction and answers with response
SearchCreated(r, response) ==
    /\ r \in pending
    /\ r.action = "search"
    /\ pending' = pending \ {r}
    /\ transactions' = createTransaction(transactions, r.txn, r.msg, r.sp, now)
    /\ arrived' = [arrived EXCEPT ![r.txn] = [f \in ListFields |-> <<>>]]
    /\ http' = response
    /\ UNCHANGED <<now, ret, devMode, processEnv, call, sent, cb>>

\* the network acknowledged: the route creates the transaction and answers success
SearchAcked(r) == SearchCreated(r, ApiResponse(200))

\* res.json({success: true, transactionId, messageId, status: 'searching', ..})
SearchResponse(transactionId, messageId) ==
    [status |-> 200, ack |-> "none", code |-> "none",
     transactionId |-> transactionId, messageId |-> messageId]

\* the same step with the ids of the answer
SearchAnswered(r) == SearchCreated(r, SearchResponse(r.txn, r.msg))

\* axios.post threw (transport error, timeout): caught by the route, 500
\* mutant: the failure is swallowed and the request answered like a success
SearchFailed_Swallowed(r) ==
    /\ r \in pending
    /\ r.action = "search"
    /\ pending' = pending \ {r}
    /\ http' = ApiResponse(200)
    /\ UNCHANGED <<transactions, arrived, now, ret, devMode, processEnv, call, sent, cb>>

SearchFailed(r) ==
    /\ r \in pending
    /\ r.action = "search"
    /\ pending' = pending \ {r}
    /\ http' = ApiResponse(500)
    /\ UNCHANGED <<transactions, arrived, now, ret, devMode, processEnv, call, sent, cb>>

InitHttp ==
    /\ transactions = EmptyStore
    /\ arrived = NoArrivals
    /\ now = MaxNow
    /\ ret = Null
    /\ devMode \in BOOLEAN
    /\ processEnv = ServerEnv
    /\ call = NoCall
    /\ sent = {}
    /\ pending = {}
    /\ http = NoResponse
    /\ cb = NoCallbacks

NextHttp ==
    \/ SearchBadRequest
    \/ \E sp \in SearchPayloads : SearchSend(sp)
    \/ \E r \in pending : SearchAcked(r)
    \/ \E r \in pending : SearchFailed(r)
    \/ \E req \in Requests(HttpPayloads) : OnSearch(req)
    \/ \E req \in Requests(HttpPayloads) : OnSelect(req)
    \/ \E req \in Requests(HttpPayloads) : OnInit(req)
    \/ \E req \in Requests(HttpPayloads) : OnStatus(req)
    \/ \E req \in Requests(HttpPayloads) : OnConfirm(req)
    \/ \E req \in Requests(HttpPayloads) : OnCancel(req)
    \/ \E req \in Requests(HttpPayloads) : OnError(req)

SpecHttp == InitHttp /\ [][NextHttp]_vars

\* ================================================================ SpecConc: on_search requests in progress together

\* the two providers' catalogs
ProviderPayload == [h \in Handlers |-> IF h = "h1" THEN "pA" ELSE "pB"]

\* the request handler h is working on; what its Authorization header and context
\* are like shows when the middleware reads them
CbRequest(h, auth, ctx) ==
    [txn |-> cb[h].txn, ctx |-> ctx, auth |-> auth, payload |-> ProviderPayload[h]]

\* express hands a parsed request to the first middleware of /on_search
CbReceive(h, txn) ==
    /\ cb[h].pc = "idle"
    /\ cb' = [cb EXCEPT ![h] = [pc |-> "verifyAuth", txn |-> txn]]
    /\ UNCHANGED <<transactions, arrived, now, ret, devMode, processEnv, call, sent, pending, http>>

CbVerifyAuth(h, auth) ==
    /\ cb[h].pc = "verifyAuth"
    /\ LET req == CbRequest(h, auth, "ok")
       IN  IF verifyAuth(req, devMode) # CallNext
           THEN /\ Reject(verifyAuth(req, devMode))
                /\ cb' = [cb EXCEPT ![h] = [pc |-> "idle"]]
           ELSE /\ cb' = [cb EXCEPT ![h].pc = "validateBecknContext"]
                /\ UNCHANGED <<transactions, arrived, now, ret, devMode, processEnv, call, sent, pending, http>>

CbValidateBecknContext(h, ctx) ==
    /\ cb[h].pc = "validateBecknContext"
    /\ ctx = "absent" => cb[h].txn = NoTxn
    /\ LET req == CbRequest(h, PassedAuth, ctx)
       IN  IF validateBecknContext(req, devMode) # CallNext
           THEN /\ Reject(validateBecknContext(req, devMode))
                /\ cb' = [cb EXCEPT ![h] = [pc |-> "idle"]]
           ELSE /\ cb' = [cb EXCEPT ![h].pc = "handler"]
                /\ UNCHANGED <<transactions, arrived, now, ret, devMode, processEnv, call, sent, pending, http>>

CbHandler(h) ==
    /\ cb[h].pc = "handler"
    /\ StoreHandler("catalogs", CbRequest(h, PassedAuth, "ok"))
    /\ cb' = [cb EXCEPT ![h] = [pc |-> "idle"]]

NextConc ==
    \/ \E sp \in SearchPayloads : SearchSend(sp)
    \/ \E r \in pending : SearchAcked(r)
    \/ \E r \in pending : SearchFailed(r)
    \/ \E h \in Handlers, txn \in TxnIds \cup {NoTxn} : CbReceive(h, txn)
    \/ \E h \in Handlers, auth \in RouteAuthCases : CbVerifyAuth(h, auth)
    \/ \E h \in Handlers, ctx \in {"absent", "bad", "ok"} : CbValidateBecknContext(h, ctx)
    \/ \E h \in Handlers : CbHandler(h)

SpecConc == InitHttp /\ [][NextConc]_vars

\* ================================================================ SpecDispatch: the /api routes that send

\* the Beckn actions that follow a search, each for a transaction of the store
\* the /api routes that dispatch for a transaction of the store
ApiActions == {"select", "init", "confirm", "status", "cancel"}

\* module.exports of beckn-service.js
ServiceExports == {"search", "select", "init", "sendBecknRequest", "getGatewayUrl"}

\* the routes whose function the service has
OrderActions == ApiActions \cap ServiceExports

\* what the route did with the request: its name, the transactionId of the body and
\* whether store.getTransaction found it
ApiCall(action, id, found) == [fn |-> action, id |-> id, found |-> found]

\* a required field of the body is missing (transactionId, or providerId and itemId, or
\* cancellationReasonId): 400, nothing is sent
OrderBadRequest(action) ==
    /\ http' = ApiResponse(400)
    /\ call' = ApiCall(action, NoTxn, FALSE)
    /\ UNCHANGED <<transactions, arrived, now, ret, devMode, processEnv, sent, pending, cb>>

\* store.getTransaction(transactionId) is null: 404, nothing is sent
OrderNotFound(action, id) ==
    /\ getTransaction(transactions, id) = Null
    /\ http' = ApiResponse(404)
    /\ call' = ApiCall(action, id, FALSE)
    /\ UNCHANGED <<transactions, arrived, now, ret, devMode, processEnv, sent, pending, cb>>

\* mutant: the route dispatches without looking the transaction up
OrderSend_NoLookup(action, id) ==
    /\ action \in ServiceExports
    /\ ~headerThrows[processEnv]
    /\ \E msgId \in generateMessageId :
          LET r == [action |-> action, txn |-> id, msg |-> msgId, sp |-> Null]
          IN  /\ sent' = sent \cup {r}
              /\ pending' = pending \cup {r}
              /\ call' = ApiCall(action, id, TRUE)
              /\ UNCHANGED <<transactions, arrived, now, ret, devMode, processEnv, http, cb>>

\* becknService.select / init: a message id is generated, the context carries the
\* transactionId of the request, the request is signed and posted; the route awaits.
\* Under a PRIVATE_KEY that makes the signing throw no search creates a transaction, so
\* no order request gets this far.
OrderSend(action, id) ==
    /\ getTransaction(transactions, id) # Null
    /\ action \in ServiceExports
    /\ ~headerThrows[processEnv]
    /\ \E msgId \in generateMessageId :
          LET r == [action |-> action, txn |-> id, msg |-> msgId, sp |-> Null]
          IN  /\ sent' = sent \cup {r}
              /\ pending' = pending \cup {r}
              /\ call' = ApiCall(action, id, TRUE)
              /\ UNCHANGED <<transactions, arrived, now, ret, devMode, processEnv, http, cb>>

\* becknService.confirm / status / cancel is undefined: the call throws a TypeError, the
\* route catches it and answers 500; nothing is sent
OrderUndefined(action, id) ==
    /\ getTransaction(transactions, id) # Null
    /\ action \notin ServiceExports
    /\ http' = ApiResponse(500)
    /\ call' = ApiCall(action, id, TRUE)
    /\ UNCHANGED <<transactions, arrived, now, ret, devMode, processEnv, sent, pending, cb>>

\* the network acknowledged: the route answers success
OrderAcked(r) ==
    /\ r \in pending
    /\ r.action \in OrderActions
    /\ pending' = pending \ {r}
    /\ http' = ApiResponse(200)
    /\ UNCHANGED <<transactions, arrived, now, ret, devMode, processEnv, call, sent, cb>>

\* axios.post threw: sendBecknRequest throws it on, the route catches it and answers 500
OrderFailed(r) ==
    /\ r \in pending
    /\ r.action \in OrderActions
    /\ pending' = pending \ {r}
    /\ http' = ApiResponse(500)
    /\ UNCHANGED <<transactions, arrived, now, ret, devMode, processEnv, call, sent, cb>>

InitDispatch ==
    /\ transactions = EmptyStore
    /\ arrived = NoArrivals
    /\ now = MaxNow
    /\ ret = Null
    /\ devMode \in BOOLEAN
    /\ processEnv \in DispatchEnvs
    /\ call = NoCall
    /\ sent = {}
    /\ pending = {}
    /\ http = NoResponse
    /\ cb = NoCallbacks

NextDispatch ==
    \/ SearchBadRequest
    \/ \E sp \in SearchPayloads : SearchSend(sp)
    \/ \E sp \in SearchPayloads : SearchSignFailed(sp)
    \/ \E r \in pending : SearchAnswered(r)
    \/ \E r \in pending : SearchFailed(r)
    \/ \E action \in ApiActions : OrderBadRequest(action)
    \/ \E action \in ApiActions, id \in TxnIds : OrderNotFound(action, id)
    \/ \E action \in ApiActions, id \in TxnIds : OrderSend(action, id)
    \/ \E action \in ApiActions, id \in TxnIds : OrderUndefined(action, id)
    \/ \E r \in pending : OrderAcked(r)
    \/ \E r \in pending : OrderFailed(r)
    \/ \E id \in TxnIds, p \in HttpPayloads : AddCatalogData(id, p)
    \/ \E id \in TxnIds, p \in HttpPayloads : AddSelectData(id, p)

SpecDispatch == InitDispatch /\ [][NextDispatch]_vars

\* ---------------------------------------------------------------- properties of SpecDispatch

\* C23: each dispatch is one network send, and a send that fails is answered to the
\* triggering HTTP request as a failure: the step in which the send of a pending request
\* fails answers 500, sends nothing, takes the request off the pending ones and leaves
\* the store alone; a step that sends hands one new request to the network; and a
\* request becomes pending only by being sent for the first time, so none is retried.
C23_OneSendFailurePropagates ==
    [][/\ \A r \in pending :
            (SearchFailed(r) \/ OrderFailed(r)) =>
                /\ http' = ApiResponse(500)
                /\ sent' = sent
                /\ pending' = pending \ {r}
                /\ transactions' = transactions
       /\ sent \subseteq sent'
       /\ Cardinality(sent' \ sent) <= 1
       /\ pending' \ pending = sent' \ sent]_vars

\* a search and a select failed on the network, each answered 500, and nothing is pending
C23_Witness ==
    /\ http = ApiResponse(500)
    /\ pending = {}
    /\ \E s \in sent : s.action = "select"
    /\ Cardinality(sent) = 2

\* C24: transaction_id is immutable and message_id is fresh per call: every key of the
\* store maps to a record whose transactionId is that key; every select and init that was
\* dispatched carries the transaction_id of the record of the store it was dispatched
\* for; and no two requests that were sent carry the same message_id.
C24_IdsImmutableAndFresh ==
    /\ \A k \in DOMAIN transactions : transactions[k].transactionId = k
    /\ \A s \in sent :
          s.action \in OrderActions =>
              /\ s.txn \in DOMAIN transactions
              /\ transactions[s.txn].transactionId = s.txn
    /\ \A s1 \in sent, s2 \in sent : s1.msg = s2.msg => s1 = s2

\* C37: when the outbound search fails, by a transport error or because signing throws,
\* no transaction is recorded for the generated id and the client gets a 500 without a
\* transactionId; when it succeeds, the transactionId of the answer, the transaction_id
\* of the request that was sent and the key of the new record are the same value, and
\* the messageId of the record and of the answer is the message_id that was sent.
C37_SearchFailureRecordsNothing ==
    [][/\ \A r \in pending :
            SearchFailed(r) =>
                /\ http' = ApiResponse(500)
                /\ "transactionId" \notin DOMAIN http'
                /\ r.txn \notin DOMAIN transactions'
                /\ transactions' = transactions
       /\ \A sp \in SearchPayloads :
            SearchSignFailed(sp) =>
                /\ http' = ApiResponse(500)
                /\ "transactionId" \notin DOMAIN http'
                /\ sent' = sent
                /\ transactions' = transactions
       /\ (http' # http /\ "transactionId" \in DOMAIN http') =>
            /\ http'.transactionId \notin DOMAIN transactions
            /\ http'.transactionId \in DOMAIN transactions'
            /\ transactions'[http'.transactionId].transactionId = http'.transactionId
            /\ transactions'[http'.transactionId].messageId = http'.messageId
            /\ \E s \in sent : /\ s.action = "search"
                                /\ s.txn = http'.transactionId
                                /\ s.msg = http'.messageId]_vars

\* of two searches the first failed on the network and the second was answered with its
\* ids: the store has the second transaction and not the first
C37_Witness ==
    /\ "transactionId" \in DOMAIN http
    /\ DOMAIN transactions = {http.transactionId}
    /\ Cardinality({s \in sent : s.action = "search"}) = 2
    /\ pending = {}

C35_ConfirmIsDispatched ==
    (call.fn \in {"confirm", "status", "cancel"} /\ call.found)
        => \E s \in sent : s.action = call.fn /\ s.txn = call.id

\* a search and a select were sent for one transaction, with two message ids, and the
\* record of the transaction has taken a catalog in between
C24_Witness ==
    \E s1 \in sent, s2 \in sent :
        /\ s1.action = "search"
        /\ s2.action = "select"
        /\ s1.txn = s2.txn
        /\ s1.msg # s2.msg
        /\ s1.txn \in DOMAIN transactions
        /\ transactions[s1.txn].messageId = s1.msg
        /\ Len(transactions[s1.txn].catalogs) = 1

\* ================================================================ SpecCrypto: the calls of sign.js and verify.js

\* bodies of outbound requests
Bodies == {<<"{", "}">>, <<"{", "\"", "a", "\"", ":", "1", "}">>}

\* process.env as configured, with SUBSCRIBER_ID and UNIQUE_KEY_ID set, and without keys
CryptoEnvs ==
    {ServerEnv,
     [SUBSCRIBER_ID |-> <<"a", "=", "b", ",", " ", "c">>, UNIQUE_KEY_ID |-> <<"k", "_", "2">>,
      PRIVATE_KEY |-> OtherKeys.privateKey, PUBLIC_KEY |-> OtherKeys.publicKey],
     [SUBSCRIBER_ID |-> <<>>, UNIQUE_KEY_ID |-> <<>>, PRIVATE_KEY |-> <<>>, PUBLIC_KEY |-> <<>>]}

\* the seed nacl.sign.keyPair() draws when a pair has to be generated
FreshSeed == <<5, 6>>

\* values of header parameters: not empty, without a double quote
ParamValues == {<<"a", "=", "b">>, <<",", " ", "x", "=">>, <<"=">>}

\* the pieces header strings are made of
HeaderPieces ==
    {<<"a", "=", "\"", "1", "\"">>, <<"b", "=", "\"", "2", " ", "3", "\"">>, <<"=", "\"", "x", "\"">>,
     <<",">>, <<"a">>, signaturePrefix}

\* header strings: up to three pieces in a row
HeaderStrings ==
    HeaderPieces
    \cup {x \o y : x \in HeaderPieces, y \in HeaderPieces}
    \cup {x \o y \o z : x \in HeaderPieces, y \in HeaderPieces, z \in HeaderPieces}

Messages ==
    {<<"m">>, <<"m", " ">>,
     createSigningString(Number(0), Number(TTL), createDigest(<<"{", "}">>))}

KeyPairs == {ServerKeys, OtherKeys}

CreateAuthorizationHeader(body, env) ==
    /\ call' = [fn |-> "createAuthorizationHeader", body |-> body, env |-> env, t |-> now,
              header |-> createAuthorizationHeader(body, env, FreshSeed, now)]
    /\ UNCHANGED <<transactions, arrived, now, ret, devMode, processEnv, sent, pending, http, cb>>

\* a header is put together from the values of its parameters
EncodeHeader(subscriberId, uniqueKeyId, created, expires, signature) ==
    /\ call' = [fn |-> "encodeHeader",
              subscriberId |-> subscriberId, uniqueKeyId |-> uniqueKeyId,
              created |-> created, expires |-> expires, signature |-> signature,
              header |-> encodeHeader(subscriberId, uniqueKeyId, Number(created),
              Number(expires), signature)]
    /\ UNCHANGED <<transactions, arrived, now, ret, devMode, processEnv, sent, pending, http, cb>>

\* the header the last call built is parsed
ParseBuiltHeader ==
    /\ call.fn \in {"createAuthorizationHeader", "encodeHeader"}
    /\ call.header # Throw
    /\ call' = [fn |-> "parseAuthorizationHeader", header |-> call.header,
              params |-> parseAuthorizationHeader(call.header), built |-> call]
    /\ UNCHANGED <<transactions, arrived, now, ret, devMode, processEnv, sent, pending, http, cb>>

ParseAuthorizationHeader(header) ==
    /\ call' = [fn |-> "parseAuthorizationHeader", header |-> header,
              params |-> parseAuthorizationHeader(header), built |-> NoCall]
    /\ UNCHANGED <<transactions, arrived, now, ret, devMode, processEnv, sent, pending, http, cb>>

VerifyAuthorizationHeader(req) ==
    /\ call' = [fn |-> "verifyAuthorizationHeader", req |-> req, t |-> now, dev |-> devMode,
              result |-> verifyRequest(req, devMode)]
    /\ UNCHANGED <<transactions, arrived, now, ret, devMode, processEnv, sent, pending, http, cb>>

Sign(message, keyPair) ==
    /\ call' = [fn |-> "sign", message |-> message, keyPair |-> keyPair,
              signature |-> sign(message, keyPair.privateKey)]
    /\ UNCHANGED <<transactions, arrived, now, ret, devMode, processEnv, sent, pending, http, cb>>

\* a signature is verified for a message under a public key
Verify(message, publicKey) ==
    /\ call.fn = "sign"
    /\ call.signature # Throw
    /\ call' = [fn |-> "verify", message |-> message, publicKey |-> publicKey,
              signature |-> call.signature, signed |-> call.message,
              signer |-> call.keyPair,
              result |-> verify(message, call.signature, publicKey)]
    /\ UNCHANGED <<transactions, arrived, now, ret, devMode, processEnv, sent, pending, http, cb>>

InitCrypto ==
    /\ transactions = EmptyStore
    /\ arrived = NoArrivals
    /\ now = 0
    /\ ret = Null
    /\ devMode \in BOOLEAN
    /\ processEnv = ServerEnv
    /\ call = NoCall
    /\ sent = {}
    /\ pending = {}
    /\ http = NoResponse
    /\ cb = NoCallbacks

NextCrypto ==
    \/ Tick
    \/ \E body \in Bodies, env \in CryptoEnvs : CreateAuthorizationHeader(body, env)
    \/ \E sub \in ParamValues, key \in ParamValues, created \in 0..MaxNow,
          expires \in 0..MaxNow, sig \in ParamValues :
            EncodeHeader(sub, key, created, expires, sig)
    \/ ParseBuiltHeader
    \/ \E header \in HeaderStrings : ParseAuthorizationHeader(header)
    \/ \E req \in RequestsWith(HttpPayloads, AuthCases) : VerifyAuthorizationHeader(req)
    \/ \E message \in Messages, keyPair \in KeyPairs : Sign(message, keyPair)
    \/ \E message \in Messages, keyPair \in KeyPairs : Verify(message, keyPair.publicKey)

SpecCrypto == InitCrypto /\ [][NextCrypto]_vars

\* ---------------------------------------------------------------- properties of SpecCrypto

Expired == AuthResult(FALSE, "Authorization header expired")

\* the call is a verification of a header that carries an expires value in the past
VerifiedPastExpires ==
    /\ call.fn = "verifyAuthorizationHeader"
    /\ call.req.auth.sender # "nobody"
    /\ call.t > call.req.auth.expires

\* C14, as stated: a header whose expires is in the past fails verification with the
\* outcome 'expired', whatever its signature.  Violated in DEV_MODE, where the header is
\* not looked at and the outcome is valid.
C14_PastExpiresAlwaysExpired == VerifiedPastExpires => call.result = Expired

\* C14, amended: when DEV_MODE is not 'true', a header that carries keyId, signature,
\* created and expires and whose expires is in the past fails verification with the
\* outcome 'expired' and never 'invalid signature', whether its signature is valid
\* (keyHolder) or not (stranger, tamperer).
C14_ExpiredBeforeSignature ==
    (VerifiedPastExpires /\ ~call.dev /\ call.req.auth.sender # "malformed")
        => call.result = Expired

\* an expired header with an invalid signature has been verified outside DEV_MODE
C14_Witness ==
    /\ VerifiedPastExpires
    /\ ~call.dev
    /\ call.req.auth.sender = "stranger"
    /\ call.result = Expired

\* C15: every signature envelope satisfies expires > created; a request passes the expiry
\* check exactly while now <= expires; every header built by createAuthorizationHeader has
\* expires = created + 30.  The first part fails: verification never compares expires
\* with created, and accepts an envelope whose expires equals its created.
C15_ExpiresAfterCreated ==
    /\ (call.fn = "verifyAuthorizationHeader" /\ ~call.dev /\ call.result.valid)
            => LET params == parseAuthorizationHeader(authorization(call.req))
               IN  parseInt(params[P_expires]).value > parseInt(params[P_created]).value
    /\ (call.fn = "verifyAuthorizationHeader" /\ ~call.dev
            /\ call.req.auth.sender \in {"keyHolder", "stranger", "tamperer"})
            => (call.result = Expired <=> call.t > call.req.auth.expires)
    /\ (call.fn = "parseAuthorizationHeader" /\ call.built.fn = "createAuthorizationHeader")
            => /\ parseInt(call.params[P_created]) = Number(call.built.t)
               /\ parseInt(call.params[P_expires]) = Number(call.built.t + 30)

\* the six parameters of the header that encodeHeader builds
Envelope(e) ==
    [k \in {P_keyId, P_algorithm, P_created, P_expires, P_headers, P_signature} |->
        CASE k = P_keyId -> e.subscriberId \o <<"|">> \o e.uniqueKeyId
                            \o <<"|", "e", "d", "2", "5", "5", "1", "9">>
          [] k = P_algorithm -> <<"e", "d", "2", "5", "5", "1", "9">>
          [] k = P_created -> decimal(e.created)
          [] k = P_expires -> decimal(e.expires)
          [] k = P_headers -> <<"(", "c", "r", "e", "a", "t", "e", "d", ")", " ", "(", "e", "x", "p", "i",
          "r", "e", "s", ")", " ", "d", "i", "g", "e", "s", "t">>
          [] k = P_signature -> e.signature]

\* C18: for every envelope the codec builds, with values that are not empty and hold no
\* double quote, parseAuthorizationHeader of the encoded header returns each of the six
\* field values exactly as encoded.
C18_DecodeRecoversEnvelope ==
    (call.fn = "parseAuthorizationHeader" /\ call.built.fn = "encodeHeader")
        => call.params = Envelope(call.built)

\* a header whose values hold "=", "," and blanks has been encoded and parsed
C18_Witness ==
    /\ call.fn = "parseAuthorizationHeader"
    /\ call.built.fn = "encodeHeader"
    /\ call.built.subscriberId = <<",", " ", "x", "=">>
    /\ call.built.signature = <<"=">>
    /\ call.params[P_signature] = <<"=">>
    /\ call.params[P_expires] = <<"1">>

\* C19: parseAuthorizationHeader returns the same mapping for a header string with the
\* literal prefix 'Signature ' and for the string with that prefix removed.
C19_PrefixIsOptional ==
    (call.fn = "parseAuthorizationHeader" /\ startsWith(call.header, signaturePrefix))
        => call.params = parseAuthorizationHeader(SubSeq(call.header, Len(signaturePrefix) + 1,
                                                         Len(call.header)))

\* a header with the prefix has been parsed, and it holds a parameter
C19_Witness ==
    /\ call.fn = "parseAuthorizationHeader"
    /\ call.header = signaturePrefix \o <<"a", "=", "\"", "1", "\"">>
    /\ call.params = (<<"a">> :> <<"1">>)

\* C20: verify(message, sign(message, privateKey), publicKey) is true for every message
\* and matching key pair, and false for a mismatched public key or an altered message.
C20_VerifyAcceptsExactlyTheSigned ==
    call.fn = "verify"
        => call.result = (call.message = call.signed /\ call.publicKey = call.signer.publicKey)

\* the three cases have been verified: the signed message under the matching key, an
\* altered message, a mismatched key
C20_Witness ==
    /\ call.fn = "verify"
    /\ call.message = call.signed
    /\ call.publicKey = call.signer.publicKey
    /\ call.result
    /\ Len(call.message) > 1

\* ================================================================ SpecEnv: process.env on the request path


\* process.env at startup: the keys configured; no key; the public key alone; a
\* PRIVATE_KEY that cannot be decoded; a PRIVATE_KEY of the wrong size
StartEnvs ==
    {ServerEnv,
     [ServerEnv EXCEPT !.PRIVATE_KEY = <<>>, !.PUBLIC_KEY = <<>>],
     [ServerEnv EXCEPT !.PRIVATE_KEY = <<>>],
     [ServerEnv EXCEPT !.PRIVATE_KEY = MalformedKey],
     [ServerEnv EXCEPT !.PRIVATE_KEY = ShortKey]}

\* sendBecknRequest up to the post: the Authorization header is created for the payload,
\* and createAuthorizationHeader configures a generated pair when there is no PRIVATE_KEY.
\* A header of Throw is the exception that leaves sendBecknRequest before anything is posted.
SendBecknRequest(body) ==
    /\ call' = [fn |-> "sendBecknRequest", body |-> body, t |-> now,
                header |-> createAuthorizationHeader(body, processEnv, FreshSeed, now)]
    /\ processEnv' = configureKeys(processEnv, FreshSeed)
    /\ UNCHANGED <<transactions, arrived, now, ret, devMode, sent, pending, http, cb>>

\* signatures and public keys handed to verify: well-formed ones, strings that are no
\* base64, and encodings of the wrong number of bytes
RawSignatures ==
    {sign(<<"m">>, ServerKeys.privateKey), MalformedKey, ShortKey, <<>>, <<"!", "!", "!", "!">>}

RawPublicKeys == {ServerKeys.publicKey, MalformedKey, encodeBase64(<<1, 2, 3>>), <<>>}

VerifyRaw(message, signature, publicKey) ==
    /\ call' = [fn |-> "verify", message |-> message, signature |-> signature,
                publicKey |-> publicKey, result |-> verify(message, signature, publicKey)]
    /\ UNCHANGED <<transactions, arrived, now, ret, devMode, processEnv, sent, pending, http, cb>>

\* the values PUBLIC_KEY takes: the configured key, none, the generated key
EnvPublicKeys == {ServerKeys.publicKey, <<>>, generateKeyPair(FreshSeed).publicKey}

\* the callback request whose header is verified under process.env
EnvRequest(auth) == [txn |-> "T1", ctx |-> "ok", payload |-> "pA", auth |-> auth]

\* verifyAuthorizationHeader(req) of EnvRequest, tabulated for every PUBLIC_KEY, header,
\* DEV_MODE and time
envAuthorizationResult ==
    [publicKey \in EnvPublicKeys |->
     [sender \in {"keyHolder", "stranger", "tamperer", "malformed", "nobody"} |->
      [expires \in 0..MaxNow |->
       [dev \in BOOLEAN |->
        [t \in 0..MaxNow |->
            verifyAuthorizationHeader(
                authorization(EnvRequest([sender |-> sender, expires |-> expires])),
                JSONstringify(EnvRequest([sender |-> sender, expires |-> expires])),
                dev, t, publicKey)]]]]]

\* verifyAuthorizationHeader(req) with the PUBLIC_KEY that process.env holds now
VerifyCallback(auth) ==
    /\ call' = [fn |-> "verifyAuthorizationHeader", req |-> EnvRequest(auth), t |-> now,
                dev |-> devMode, publicKey |-> processEnv.PUBLIC_KEY,
                result |-> envAuthorizationResult[processEnv.PUBLIC_KEY][auth.sender][auth.expires][devMode][now]]
    /\ UNCHANGED <<transactions, arrived, now, ret, devMode, processEnv, sent, pending, http, cb>>

\* JSON.stringify(req.body) for the body express.json() parsed from the bytes of the
\* request: the blanks and line ends between the tokens are gone, the strings are kept.
\* (The bodies of the model have no escapes, no index-like keys and no repeated keys,
\* for which parsing and serializing also change the order or the text.)
RECURSIVE JSONstringifyParsed(_, _)
JSONstringifyParsed(wire, inString) ==
    IF Len(wire) = 0 THEN <<>>
    ELSE IF wire[1] = "\"" THEN <<"\"">> \o JSONstringifyParsed(Tail(wire), ~inString)
    ELSE IF ~inString /\ wire[1] \in {" ", "\n"} THEN JSONstringifyParsed(Tail(wire), inString)
    ELSE <<wire[1]>> \o JSONstringifyParsed(Tail(wire), inString)

\* the bytes of request bodies as senders put them on the wire
WireBodies ==
    {<<"{", "\"", "a", "\"", ":", "1", "}">>,
     <<"{", "\"", "a", "\"", ":", " ", "1", "}">>,
     <<"{", "\"", "a", "\"", ":", "\"", "b", " ", "c", "\"", "}">>,
     <<"{", "\"", "b", "\"", ":", "2", ",", "\"", "a", "\"", ":", "1", "}">>,
     <<"{", "\n", "\"", "a", "\"", ":", "1", "}">>}

\* verifyAuthorizationHeader(req) for a request whose sender signed the bytes it sent,
\* tabulated for every PUBLIC_KEY, body, expires, DEV_MODE and time
wireAuthorizationResult ==
    [publicKey \in EnvPublicKeys |->
     [wire \in WireBodies |->
      [expires \in 0..MaxNow |->
       [dev \in BOOLEAN |->
        [t \in 0..MaxNow |->
            verifyAuthorizationHeader(
                signedHeader(wire, ServerKeys.privateKey, expires),
                JSONstringifyParsed(wire, FALSE), dev, t, publicKey)]]]]]

\* a callback whose sender, the holder of the configured key, signed the bytes on the wire
VerifyWire(wire, expires) ==
    /\ call' = [fn |-> "verifyAuthorizationHeader",
                req |-> [wire |-> wire, auth |-> [sender |-> "keyHolder", expires |-> expires]],
                t |-> now, dev |-> devMode, publicKey |-> processEnv.PUBLIC_KEY,
                result |-> wireAuthorizationResult[processEnv.PUBLIC_KEY][wire][expires][devMode][now]]
    /\ UNCHANGED <<transactions, arrived, now, ret, devMode, processEnv, sent, pending, http, cb>>

InitEnv ==
    /\ transactions = EmptyStore
    /\ arrived = NoArrivals
    /\ now = 0
    /\ ret = Null
    /\ devMode \in BOOLEAN
    /\ processEnv \in StartEnvs
    /\ call = NoCall
    /\ sent = {}
    /\ pending = {}
    /\ http = NoResponse
    /\ cb = NoCallbacks

NextEnv ==
    \/ Tick
    \/ \E body \in Bodies : SendBecknRequest(body)
    \/ \E message \in Messages, signature \in RawSignatures, publicKey \in RawPublicKeys :
          VerifyRaw(message, signature, publicKey)
    \/ \E auth \in AuthCases : VerifyCallback(auth)
    \/ \E wire \in WireBodies, expires \in 0..MaxNow : VerifyWire(wire, expires)

SpecEnv == InitEnv /\ [][NextEnv]_vars

\* ---------------------------------------------------------------- properties of SpecEnv

\* C21: no exception leaves the crypto layer: verify returns a boolean for every input,
\* and creating the Authorization header of a dispatch yields a value and does not throw,
\* also when the configured PRIVATE_KEY is malformed.  The second part fails: sign has no
\* handler for the exceptions of decodeBase64 and nacl.sign.detached.
C21_NoExceptionEscapes ==
    /\ call.fn = "verify" => call.result \in BOOLEAN
    /\ call.fn = "sendBecknRequest" => call.header # Throw

\* C22: the digest that is verified is computed over the bytes that were sent and signed,
\* not over a re-serialization: a request whose sender signed the bytes it transmitted
\* with the key the receiver has configured verifies while it has not expired, whatever
\* the whitespace of those bytes.  Fails: the receiver hashes JSON.stringify(req.body).
C22_SignedWireBytesVerify ==
    (/\ call.fn = "verifyAuthorizationHeader"
     /\ "wire" \in DOMAIN call.req
     /\ ~call.dev
     /\ call.t <= call.req.auth.expires
     /\ call.publicKey = ServerKeys.publicKey)
        => call.result.valid

\* C29: key material is fixed after startup: no dispatch and no verification changes
\* PRIVATE_KEY or PUBLIC_KEY of process.env, so callbacks are verified with the same key
\* before and after every dispatch.  Fails: createAuthorizationHeader generates a pair and
\* writes both variables when it finds no PRIVATE_KEY.
C29_KeysFixedAfterStartup ==
    [][/\ processEnv'.PRIVATE_KEY = processEnv.PRIVATE_KEY
       /\ processEnv'.PUBLIC_KEY = processEnv.PUBLIC_KEY]_vars

\* the pair createAuthorizationHeader generates
GeneratedKeys == generateKeyPair(FreshSeed)

\* C38: createAuthorizationHeader calls itself at most once.  Without a PRIVATE_KEY it
\* generates one pair and writes both PRIVATE_KEY and PUBLIC_KEY, a configured PUBLIC_KEY
\* included; with a PRIVATE_KEY it writes nothing.  Every header produced under the
\* generated pair is signed with its private key and verifies against the PUBLIC_KEY that
\* process.env holds, and process.env changes only from no PRIVATE_KEY to a PRIVATE_KEY,
\* so a pair is generated at most once.
C38_EphemeralPairOnce ==
    [][/\ (call' # call /\ call'.fn = "sendBecknRequest")
            => /\ recursiveCalls(processEnv, FreshSeed) <= 1
               /\ recursiveCalls(processEnv, FreshSeed) = 1 <=> processEnv.PRIVATE_KEY = <<>>
               /\ processEnv' =
                     IF processEnv.PRIVATE_KEY = <<>>
                     THEN [processEnv EXCEPT !.PRIVATE_KEY = GeneratedKeys.privateKey,
                                             !.PUBLIC_KEY = GeneratedKeys.publicKey]
                     ELSE processEnv
               /\ processEnv'.PRIVATE_KEY = GeneratedKeys.privateKey
                     => /\ call'.header # Throw
                        /\ parseAuthorizationHeader(call'.header).signature
                              = sign(createSigningString(Number(now), Number(now + TTL),
                                                         createDigest(call'.body)),
                                     GeneratedKeys.privateKey)
                        /\ verifyAuthorizationHeader(call'.header, call'.body, FALSE, now,
                                                     processEnv'.PUBLIC_KEY).valid
       /\ processEnv' # processEnv
            => /\ processEnv.PRIVATE_KEY = <<>>
               /\ processEnv'.PRIVATE_KEY # <<>>]_vars

\* a header produced under the generated pair after the clock has advanced, with both
\* variables of process.env holding that pair
C38_Witness ==
    /\ call.fn = "sendBecknRequest"
    /\ call.t = MaxNow
    /\ call.header # Throw
    /\ processEnv.PRIVATE_KEY = GeneratedKeys.privateKey
    /\ processEnv.PUBLIC_KEY = GeneratedKeys.publicKey

\* C30: with DEV_MODE off verifyAuthorizationHeader returns one outcome in this order of
\* precedence: no header -> 'Missing Authorization header'; a header without signature
\* -> 'Malformed Authorization header'; now > expires -> 'Authorization header expired';
\* no PUBLIC_KEY -> 'No public key configured for verification'; a signature that is not
\* the one of the holder of PUBLIC_KEY over the body -> 'Invalid signature'; else valid.
\* The header is told by who made it, not by what the function reads from it.
C30_OutcomePrecedence ==
    (/\ call.fn = "verifyAuthorizationHeader"
     /\ "txn" \in DOMAIN call.req
     /\ ~call.dev)
        => call.result =
              IF call.req.auth.sender = "nobody"
              THEN AuthResult(FALSE, "Missing Authorization header")
              ELSE IF call.req.auth.sender = "malformed"
              THEN AuthResult(FALSE, "Malformed Authorization header")
              ELSE IF call.t > call.req.auth.expires
              THEN AuthResult(FALSE, "Authorization header expired")
              ELSE IF call.publicKey = <<>>
              THEN AuthResult(FALSE, "No public key configured for verification")
              ELSE IF ~(call.req.auth.sender = "keyHolder"
                         /\ call.publicKey = ServerKeys.publicKey)
              THEN AuthResult(FALSE, "Invalid signature")
              ELSE AuthResult(TRUE, "none")

\* an expired header of the key holder, verified with no PUBLIC_KEY configured, is
\* reported as expired
C30_Witness ==
    /\ call.fn = "verifyAuthorizationHeader"
    /\ "txn" \in DOMAIN call.req
    /\ ~call.dev
    /\ call.req.auth.sender = "keyHolder"
    /\ call.t > call.req.auth.expires
    /\ call.publicKey = <<>>
    /\ call.result = AuthResult(FALSE, "Authorization header expired")

\* ================================================================ SpecFields: the fields of the Authorization header

\* name="value" as the header carries a parameter
headerParam(name, value) == name \o <<"=", "\"">> \o value \o <<"\"">>

\* an Authorization header with the keyId, algorithm and headers of f; a value of <<>> is
\* a parameter the expression does not match
fieldsHeader(f, created, expires, signature) ==
    signaturePrefix
    \o headerParam(P_keyId, f.keyId) \o <<",">>
    \o headerParam(P_algorithm, f.algorithm) \o <<",">>
    \o headerParam(P_created, numberToString(created)) \o <<",">>
    \o headerParam(P_expires, numberToString(expires)) \o <<",">>
    \o headerParam(P_headers, f.headers) \o <<",">>
    \o headerParam(P_signature, signature)

\* the three fields as createAuthorizationHeader writes them for SenderId
TemplateFields ==
    [keyId |-> SenderId \o <<"|">> \o DefaultUniqueKeyId \o <<"|", "e", "d", "2", "5", "5", "1", "9">>,
     algorithm |-> <<"e", "d", "2", "5", "5", "1", "9">>,
     headers |-> <<"(", "c", "r", "e", "a", "t", "e", "d", ")", " ", "(", "e", "x", "p",
                   "i", "r", "e", "s", ")", " ", "d", "i", "g", "e", "s", "t">>]

\* the fields senders put into the header: those of the template, another key id, an
\* algorithm that reads like a parameter, no algorithm, other headers
FieldValues ==
    {[keyId |-> k, algorithm |-> a, headers |-> h] :
        k \in {TemplateFields.keyId, <<"x">>},
        a \in {TemplateFields.algorithm,
               <<"x", ",", "s", "i", "g", "n", "a", "t", "u", "r", "e", "=", "y">>, <<>>},
        h \in {TemplateFields.headers, <<"d", "i", "g", "e", "s", "t">>}}

FieldsBody == <<"{", "\"", "a", "\"", ":", "1", "}">>

\* the header a sender makes for FieldsBody: the key holder signs the body with the
\* private key of the configured PUBLIC_KEY, the stranger with another key, and the
\* tamperer's body was changed after the key holder signed it
senderHeader(f, sender, expires) ==
    fieldsHeader(f, Number(0), Number(expires),
                 sign(createSigningString(Number(0), Number(expires),
                                          createDigest(FieldsBody
                                             \o (IF sender = "tamperer" THEN <<" ">> ELSE <<>>))),
                      IF sender = "stranger" THEN OtherKeys.privateKey
                      ELSE ServerKeys.privateKey))

FieldsEnvs == {ServerEnv, [ServerEnv EXCEPT !.PUBLIC_KEY = <<>>]}

\* verifyAuthorizationHeader for the header of every sender with every fields, tabulated
fieldsResult ==
    [publicKey \in {e.PUBLIC_KEY : e \in FieldsEnvs} |->
     [sender \in {"keyHolder", "stranger", "tamperer"} |->
      [expires \in {0, MaxNow} |->
       [t \in 0..MaxNow |->
        [f \in FieldValues |->
            verifyAuthorizationHeader(senderHeader(f, sender, expires), FieldsBody,
                                      FALSE, t, publicKey)]]]]]

\* two requests of one sender that differ in keyId, algorithm and headers alone are
\* verified at the same time under the same process.env
VerifyPair(first, second, sender, expires) ==
    /\ call' = [fn |-> "verifyPair", first |-> first, second |-> second,
                sender |-> sender, expires |-> expires, t |-> now,
                publicKey |-> processEnv.PUBLIC_KEY,
                results |-> <<fieldsResult[processEnv.PUBLIC_KEY][sender][expires][now][first],
                              fieldsResult[processEnv.PUBLIC_KEY][sender][expires][now][second]>>]
    /\ UNCHANGED <<transactions, arrived, now, ret, devMode, processEnv, sent, pending, http, cb>>

InitFields ==
    /\ transactions = EmptyStore
    /\ arrived = NoArrivals
    /\ now = 0
    /\ ret = Null
    /\ devMode = FALSE
    /\ processEnv \in FieldsEnvs
    /\ call = NoCall
    /\ sent = {}
    /\ pending = {}
    /\ http = NoResponse
    /\ cb = NoCallbacks

NextFields ==
    \/ Tick
    \/ \E first \in FieldValues, second \in FieldValues,
          sender \in {"keyHolder", "stranger", "tamperer"}, expires \in {0, MaxNow} :
            VerifyPair(first, second, sender, expires)

SpecFields == InitFields /\ [][NextFields]_vars

\* C39: the outcome of the verification does not depend on the keyId, algorithm and
\* headers of the Authorization header while keyId is not empty: two requests that differ
\* in those fields alone get the same outcome.
C39_OutcomeIgnoresFields ==
    call.fn = "verifyPair" => call.results[1] = call.results[2]

\* the header of the template and one with another key id, no algorithm and other headers,
\* both of the key holder, are both accepted; the first is the header
\* createAuthorizationHeader's template gives
C39_Witness ==
    /\ call.fn = "verifyPair"
    /\ call.first = TemplateFields
    /\ call.second = [keyId |-> <<"x">>, algorithm |-> <<>>, headers |-> <<"d", "i", "g", "e", "s", "t">>]
    /\ call.sender = "keyHolder"
    /\ call.results = <<AuthResult(TRUE, "none"), AuthResult(TRUE, "none")>>
    /\ senderHeader(call.first, call.sender, call.expires)
          = signedHeader(FieldsBody, ServerKeys.privateKey, call.expires)

\* ================================================================ the subscription challenge (crypto/index.js, test-crypto.js)

\* Curve25519, scaled down to the multiplicative group modulo 251: the scalar
\* multiplication of the point q by n
RECURSIVE scalarMult(_, _)
scalarMult(n, q) ==
    IF n = 0 THEN 1
    ELSE IF n % 2 = 0 THEN (scalarMult(n \div 2, q) * scalarMult(n \div 2, q)) % 251
    ELSE (q * scalarMult(n - 1, q)) % 251

\* nacl.box.keyPair.fromSecretKey: the public key is the base point multiplied by the key
boxKeyPair(secretKey) == [publicKey |-> <<scalarMult(secretKey[1], 6)>>, secretKey |-> secretKey]

\* generateEncryptionKeyPair: a pair for the key agreement, both keys base64-encoded
generateEncryptionKeyPair(seed) ==
    [publicKey  |-> encodeBase64(boxKeyPair(seed).publicKey),
     privateKey |-> encodeBase64(boxKeyPair(seed).secretKey)]

\* mutant: the shared secret is taken from the public key alone
nacl_box_before_PublicOnly(publicKey, secretKey) == publicKey

\* nacl.box.before(publicKey, secretKey): the shared secret of the key agreement
nacl_box_before(publicKey, secretKey) == <<scalarMult(secretKey[1], publicKey[1])>>

\* the block size of the cipher, AES scaled down to blocks of two bytes
BlockSize == 2

\* one block under the key: two rounds of a Feistel network
encryptBlock(key, block) ==
    LET l1 == block[2]
        r1 == (block[1] + block[2] * 5 + key[1] * 3 + 1) % 256
    IN  <<r1, (l1 + r1 * 5 + key[1] * 7 + 2) % 256>>

decryptBlock(key, block) ==
    LET r1 == block[1]
        l1 == (block[2] - (r1 * 5 + key[1] * 7 + 2)) % 256
    IN  <<(r1 - (l1 * 5 + key[1] * 3 + 1)) % 256, l1>>

\* PKCS#7: the last block is filled with the number of bytes that fill it
pkcs7Pad(bytes) ==
    bytes \o [i \in 1..(BlockSize - (Len(bytes) % BlockSize)) |->
                 BlockSize - (Len(bytes) % BlockSize)]

\* the padding is well-formed: its last byte n is between 1 and the block size and the
\* last n bytes are n
pkcs7Valid(bytes) ==
    /\ Len(bytes) > 0
    /\ bytes[Len(bytes)] \in 1..BlockSize
    /\ \A i \in (Len(bytes) - bytes[Len(bytes)] + 1)..Len(bytes) : bytes[i] = bytes[Len(bytes)]

\* electronic codebook: every block by itself, no initialization vector
RECURSIVE ecbEncrypt(_, _)
ecbEncrypt(key, bytes) ==
    IF Len(bytes) = 0 THEN <<>>
    ELSE encryptBlock(key, SubSeq(bytes, 1, BlockSize))
         \o ecbEncrypt(key, SubSeq(bytes, BlockSize + 1, Len(bytes)))

RECURSIVE ecbDecrypt(_, _)
ecbDecrypt(key, bytes) ==
    IF Len(bytes) = 0 THEN <<>>
    ELSE decryptBlock(key, SubSeq(bytes, 1, BlockSize))
         \o ecbDecrypt(key, SubSeq(bytes, BlockSize + 1, Len(bytes)))

\* the character of a byte; a byte that is no character of the model decodes to "?"
\* (the replacement character of a lenient UTF-8 decoder)
encodeUTF8(bytes) ==
    [i \in DOMAIN bytes |->
        IF \E c \in Chars : charCode[c] = bytes[i]
        THEN CHOOSE c \in Chars : charCode[c] = bytes[i]
        ELSE "?"]

\* the registry's side, as test-crypto.js plays it: the shared secret of the sender's
\* private and the receiver's public key, createCipheriv('aes-256-ecb', secret, null),
\* update(challenge, 'utf8', 'base64') + final('base64')
encryptChallenge(challenge, senderPrivateKey, receiverPublicKey) ==
    encodeBase64(ecbEncrypt(nacl_box_before(decodeBase64(receiverPublicKey),
                                            decodeBase64(senderPrivateKey)),
                            pkcs7Pad(decodeUTF8(challenge))))

\* the failure value of decryptChallenge (null)
DecryptFailure == <<"null">>

\* the plaintext of deciphered bytes, a failure when their padding is not well-formed
unpad(bytes) ==
    IF ~pkcs7Valid(bytes) THEN DecryptFailure
    ELSE encodeUTF8(SubSeq(bytes, 1, Len(bytes) - bytes[Len(bytes)]))

\* the ciphertext under the shared secret, a failure when it is empty or no whole
\* number of blocks
decipher(key, cipherBytes) ==
    IF Len(cipherBytes) = 0 \/ Len(cipherBytes) % BlockSize # 0 THEN DecryptFailure
    ELSE unpad(ecbDecrypt(key, cipherBytes))

\* decryptChallenge(encryptedBase64, counterpartyPublicKey, ownPrivateKey): the shared
\* secret of the counterparty's public key and the own private key deciphers the
\* challenge; undecodable input, keys of the wrong size, a ciphertext that is no whole
\* number of blocks and a malformed padding give the failure value
decryptChallenge(encryptedBase64, counterpartyPublicKey, ownPrivateKey) ==
    IF \/ decodeBase64(encryptedBase64) = Throw
       \/ decodeBase64(counterpartyPublicKey) = Throw
       \/ decodeBase64(ownPrivateKey) = Throw
    THEN DecryptFailure
    ELSE IF Len(decodeBase64(counterpartyPublicKey)) # 1 \/ Len(decodeBase64(ownPrivateKey)) # 1
    THEN DecryptFailure
    ELSE decipher(nacl_box_before(decodeBase64(counterpartyPublicKey),
                                  decodeBase64(ownPrivateKey)),
                  decodeBase64(encryptedBase64))

\* ================================================================ SpecSubscribe: POST /on_subscribe

\* the key pairs of the registry, of this server, and of somebody else
RegistryKeys == generateEncryptionKeyPair(<<7>>)
EncryptionKeys == generateEncryptionKeyPair(<<11>>)
StrangerKeys == generateEncryptionKeyPair(<<13>>)
EncryptionKeyPairs == {RegistryKeys, EncryptionKeys, StrangerKeys}

\* process.env.ONDC_PUBLIC_KEY and process.env.ENCRYPTION_PRIVATE_KEY, <<>> when unset:
\* configured; one of them unset; the private key of another pair; a key that is no base64
SubscribeEnvs ==
    {[ONDC_PUBLIC_KEY |-> RegistryKeys.publicKey, ENCRYPTION_PRIVATE_KEY |-> EncryptionKeys.privateKey],
     [ONDC_PUBLIC_KEY |-> <<>>, ENCRYPTION_PRIVATE_KEY |-> EncryptionKeys.privateKey],
     [ONDC_PUBLIC_KEY |-> RegistryKeys.publicKey, ENCRYPTION_PRIVATE_KEY |-> <<>>],
     [ONDC_PUBLIC_KEY |-> RegistryKeys.publicKey, ENCRYPTION_PRIVATE_KEY |-> StrangerKeys.privateKey],
     [ONDC_PUBLIC_KEY |-> RegistryKeys.publicKey, ENCRYPTION_PRIVATE_KEY |-> MalformedKey]}

\* the plaintexts of challenges: one, two and three characters
ChallengeTexts == {<<"t">>, <<"o", "k">>, <<"a", "-", "1">>}

\* req.body.challenge, <<>> when the body has none: what the registry encrypted for this
\* server, what somebody else encrypted, and strings that are no ciphertext
Challenges ==
    {<<>>, MalformedKey, encodeBase64(<<1, 2, 3>>), encodeBase64(<<9, 9>>)}
    \cup {encryptChallenge(text, RegistryKeys.privateKey, EncryptionKeys.publicKey) :
             text \in ChallengeTexts}
    \cup {encryptChallenge(text, StrangerKeys.privateKey, EncryptionKeys.publicKey) :
             text \in ChallengeTexts}

\* an exception that leaves decryptChallenge
DecryptThrow == <<"Error">>

\* res.json({answer: decryptedChallenge})
Answer(decryptedChallenge) ==
    [status |-> 200, ack |-> "none", code |-> "none", answer |-> decryptedChallenge]

\* mutant: the result of decryptChallenge is answered without a look at it
subscribeResponse_Unchecked(decryptedChallenge) == Answer(decryptedChallenge)

\* the answer of the route for the result of decryptChallenge: 500 for a thrown
\* exception (catch) and for a falsy result, else the answer
subscribeResponse(decryptedChallenge) ==
    IF decryptedChallenge = DecryptThrow THEN ApiResponse(500)
    ELSE IF decryptedChallenge = DecryptFailure \/ decryptedChallenge = <<>> THEN ApiResponse(500)
    ELSE Answer(decryptedChallenge)

\* what a call of decryptChallenge can end in: its plaintext, and for a challenge that
\* cannot be decrypted the failure value or an exception
decryptOutcomes(challenge, publicKey, privateKey) ==
    IF decryptChallenge(challenge, publicKey, privateKey) = DecryptFailure
    THEN {DecryptFailure, DecryptThrow}
    ELSE {decryptChallenge(challenge, publicKey, privateKey)}

\* POST /on_subscribe; call keeps the challenge, whether decryptChallenge was called and
\* what the call ended in
OnSubscribe(challenge) ==
    /\ IF challenge = <<>>
       THEN /\ http' = ApiResponse(400)
            /\ call' = [fn |-> "on_subscribe", challenge |-> challenge, decrypted |-> FALSE]
       ELSE IF processEnv.ONDC_PUBLIC_KEY = <<>> \/ processEnv.ENCRYPTION_PRIVATE_KEY = <<>>
       THEN /\ http' = ApiResponse(500)
            /\ call' = [fn |-> "on_subscribe", challenge |-> challenge, decrypted |-> FALSE]
       ELSE \E outcome \in decryptOutcomes(challenge, processEnv.ONDC_PUBLIC_KEY,
                                            processEnv.ENCRYPTION_PRIVATE_KEY) :
            /\ http' = subscribeResponse(outcome)
            /\ call' = [fn |-> "on_subscribe", challenge |-> challenge, decrypted |-> TRUE,
                        outcome |-> outcome]
    /\ UNCHANGED <<transactions, arrived, now, ret, devMode, processEnv, sent, pending, cb>>

\* test-crypto.js: the sender encrypts text for the receiver, and the holder of a
\* private key decrypts it with the public key of the party it takes for the sender
DecryptChallenge(text, sender, receiver, counterparty, holder) ==
    /\ call' = [fn |-> "decryptChallenge", text |-> text, sender |-> sender,
                receiver |-> receiver, counterparty |-> counterparty, holder |-> holder,
                decrypted |-> decryptChallenge(encryptChallenge(text, sender.privateKey,
                                                                receiver.publicKey),
                                               counterparty.publicKey, holder.privateKey)]
    /\ UNCHANGED <<transactions, arrived, now, ret, devMode, processEnv, sent, pending, http, cb>>

InitSubscribe ==
    /\ transactions = EmptyStore
    /\ arrived = NoArrivals
    /\ now = 0
    /\ ret = Null
    /\ devMode = FALSE
    /\ processEnv \in SubscribeEnvs
    /\ call = NoCall
    /\ sent = {}
    /\ pending = {}
    /\ http = NoResponse
    /\ cb = NoCallbacks

NextSubscribe ==
    \/ \E challenge \in Challenges : OnSubscribe(challenge)
    \/ \E text \in ChallengeTexts, sender \in {RegistryKeys, StrangerKeys},
          receiver \in {EncryptionKeys, StrangerKeys},
          counterparty \in EncryptionKeyPairs, holder \in EncryptionKeyPairs :
            DecryptChallenge(text, sender, receiver, counterparty, holder)

SpecSubscribe == InitSubscribe /\ [][NextSubscribe]_vars

\* ---------------------------------------------------------------- properties of SpecSubscribe

\* the plaintext of the challenge of the last request, DecryptFailure when it has none
Decrypted ==
    decryptChallenge(call.challenge, processEnv.ONDC_PUBLIC_KEY, processEnv.ENCRYPTION_PRIVATE_KEY)

\* C26: POST /on_subscribe answers {answer: plaintext} only when decryptChallenge was
\* called and ended in the plaintext of the challenge, which is the answer; when the call
\* ends in the failure value or in an exception, or a key is not configured, it answers
\* HTTP 500 without an answer field; and a request without challenge is rejected with 400
\* and decryptChallenge is not called.
C26_AnswerOnlyOnSuccess ==
    call.fn = "on_subscribe" =>
        /\ "answer" \in DOMAIN http =>
              /\ call.decrypted
              /\ call.outcome \notin {DecryptFailure, DecryptThrow}
              /\ Decrypted # DecryptFailure
              /\ http = Answer(Decrypted)
        /\ (call.challenge # <<>> /\ (processEnv.ONDC_PUBLIC_KEY = <<>>
                                        \/ processEnv.ENCRYPTION_PRIVATE_KEY = <<>>)) =>
              (http = ApiResponse(500) /\ ~call.decrypted)
        /\ (call.decrypted /\ call.outcome \in {DecryptFailure, DecryptThrow}) =>
              http = ApiResponse(500)
        /\ call.challenge = <<>> => (http = ApiResponse(400) /\ ~call.decrypted)

\* the registry's challenge was answered with its plaintext
C26_Witness ==
    /\ call.fn = "on_subscribe"
    /\ call.challenge = encryptChallenge(<<"a", "-", "1">>, RegistryKeys.privateKey,
                                         EncryptionKeys.publicKey)
    /\ http = Answer(<<"a", "-", "1">>)

\* C27: decryptChallenge(c, senderPublicKey, receiverPrivateKey) returns the plaintext
\* exactly when c is the encryption of that plaintext under the shared secret of the
\* sender's private key and the receiver's public key.
C27_DecryptRecoversPlaintext ==
    (/\ call.fn = "decryptChallenge"
     /\ call.counterparty = call.sender
     /\ call.holder = call.receiver)
        => call.decrypted = call.text

\* a text that fills its last block was encrypted by the registry for this server and
\* decrypted by this server
C27_Witness ==
    /\ call.fn = "decryptChallenge"
    /\ call.sender = RegistryKeys
    /\ call.receiver = EncryptionKeys
    /\ call.counterparty = RegistryKeys
    /\ call.holder = EncryptionKeys
    /\ call.text = <<"o", "k">>
    /\ call.decrypted = <<"o", "k">>

\* ================================================================ SpecCaller: a caller that keeps what the store returned

\* the record the caller holds: ret is the reference the last call returned, and the
\* store still has the object it refers to
Held == ret # Null /\ ret \in DOMAIN transactions

\* the lists the caller writes to
CallerFields == {"catalogs", "errors"}

\* txn.catalogs.push(p) and the like on the returned record
CallerPush(field, p) ==
    /\ Held
    /\ TotalStored < MaxLog
    /\ transactions' = [transactions EXCEPT ![ret][field] = Append(@, p)]
    /\ UNCHANGED <<arrived, now, ret, server>>

\* the statuses of the structure comment and of the specification that no function of
\* the store assigns
TerminalStatuses == {"confirmed", "cancelled"}

\* txn.status = s on the returned record
CallerAssignStatus(s) ==
    /\ Held
    /\ transactions[ret].status # s
    /\ transactions' = [transactions EXCEPT ![ret].status = s]
    /\ UNCHANGED <<arrived, now, ret, server>>

\* createTransaction is called again with the id, messageId and payload of a record of
\* the store; call keeps the id and the status the record had
CreateAgain(id) ==
    /\ id \in DOMAIN transactions
    /\ transactions' = createTransaction(transactions, id, transactions[id].messageId,
                                         transactions[id].search, now)
    /\ ret' = id
    /\ arrived' = [arrived EXCEPT ![id] = [f \in ListFields |-> <<>>]]
    /\ call' = [fn |-> "createTransaction", id |-> id, status |-> transactions[id].status]
    /\ UNCHANGED <<now, devMode, processEnv, sent, pending, http, cb>>

NextCaller ==
    \/ Tick
    \/ \E id \in TxnIds, msg \in MsgIds, sp \in SearchPayloads : CreateTransaction(id, msg, sp)
    \/ \E id \in TxnIds : GetTransaction(id)
    \/ \E id \in TxnIds, p \in HttpPayloads : AddCatalogData(id, p)
    \/ \E field \in CallerFields, p \in HttpPayloads : CallerPush(field, p)
    \/ CallerAssignStatus("delivered")
    \/ \E id \in TxnIds : CreateAgain(id)

SpecCaller == Init /\ [][NextCaller]_vars

\* C16: the value getTransaction and the add* operations return is a read-only view:
\* nothing the caller does to the returned record or to its lists changes what a later
\* getTransaction for the same id returns.
C16_ReturnedRecordIsReadOnly ==
    [][((\E field \in CallerFields, p \in HttpPayloads : CallerPush(field, p))
            \/ CallerAssignStatus("delivered"))
        => transactions' = transactions]_vars

\* C17: createTransaction called again with the id, messageId and payload of a record it
\* created leaves getTransaction(id) successful and the store with the same ids, and the
\* record is the one a single call makes: status 'searching', the five lists empty, the
\* given messageId and payload, and the time of the call.
C17_CreateTransactionAgain ==
    [][\A id \in TxnIds :
          CreateAgain(id) =>
            /\ getTransaction(transactions', id) = id
            /\ DOMAIN transactions' = DOMAIN transactions
            /\ transactions'[id] =
                  createTransaction(EmptyStore, id, transactions[id].messageId,
                                    transactions[id].search, now)[id]
            /\ transactions'[id].status = "searching"
            /\ \A f \in ListFields : transactions'[id][f] = <<>>
            /\ \A k \in DOMAIN transactions \ {id} : transactions'[k] = transactions[k]]_vars

\* createTransaction was called a second time, later than the first, for a record that
\* had received no callback, and the record is the new one
C17_Witness ==
    /\ call.fn = "createTransaction"
    /\ call.status = "searching"
    /\ ret = call.id
    /\ Held
    /\ transactions[ret].status = "searching"
    /\ transactions[ret].createdAt = MaxNow
    /\ now = MaxNow
    /\ Cardinality(DOMAIN transactions) = 2

\* C31: createTransaction called again with the id of a transaction that has recorded
\* callbacks overwrites it without notice: afterwards the status is 'searching', the five
\* lists are empty and createdAt is the time of the second call, so every payload that was
\* recorded for the id is gone.
C31_OverwriteDiscardsCallbacks ==
    [][\A id \in TxnIds :
          (/\ id \in DOMAIN transactions
           /\ transactions[id].catalogs # <<>>
           /\ CreateAgain(id))
              => /\ ret' = id
                 /\ transactions'[id].status = "searching"
                 /\ \A f \in ListFields : transactions'[id][f] = <<>>
                 /\ transactions'[id].createdAt = now
                 /\ transactions'[id].updatedAt = now]_vars

\* a transaction that had reached results_ready at an earlier time was created again
C31_Witness ==
    /\ call.fn = "createTransaction"
    /\ call.status = "results_ready"
    /\ Held
    /\ ret = call.id
    /\ transactions[ret].status = "searching"
    /\ transactions[ret].catalogs = <<>>
    /\ transactions[ret].createdAt = MaxNow

\* ================================================================ SpecLifecycle: the statuses of a transaction

\* the store's calls, and a holder of a returned record that marks it confirmed or
\* cancelled, which no function of the store does
NextLifecycle ==
    \/ \E id \in TxnIds, msg \in MsgIds, sp \in SearchPayloads : CreateTransaction(id, msg, sp)
    \/ \E id \in TxnIds : GetTransaction(id)
    \/ \E id \in TxnIds, p \in HttpPayloads : AddCatalogData(id, p)
    \/ \E id \in TxnIds, p \in HttpPayloads : AddSelectData(id, p)
    \/ \E id \in TxnIds, p \in HttpPayloads : AddInitData(id, p)
    \/ \E id \in TxnIds, p \in HttpPayloads : AddStatusData(id, p)
    \/ \E id \in TxnIds, p \in HttpPayloads : AddErrorData(id, p)
    \/ \E s \in TerminalStatuses : CallerAssignStatus(s)

SpecLifecycle == Init /\ [][NextLifecycle]_vars

Known(id) == id \in DOMAIN transactions

\* the add* call of the store for one list
AddTo(field, id, p) ==
    CASE field = "catalogs"      -> AddCatalogData(id, p)
      [] field = "selections"    -> AddSelectData(id, p)
      [] field = "initResults"   -> AddInitData(id, p)
      [] field = "statusResults" -> AddStatusData(id, p)
      [] field = "errors"        -> AddErrorData(id, p)

\* the fields of a record that no add* call writes
KeptFields == {"transactionId", "messageId", "search", "createdAt"}

\* C32: an add* call for a transaction T of the store changes only T's target list, T's
\* status (addStatusData not even that) and T's updatedAt: T's transactionId, messageId,
\* search payload, createdAt and its other four lists stay, and so does every other
\* transaction of the store.
C32_AddChangesOnlyItsTarget ==
    [][\A id \in DOMAIN transactions : \A f \in ListFields : \A p \in HttpPayloads :
          AddTo(f, id, p) =>
            /\ DOMAIN transactions' = DOMAIN transactions
            /\ \A k \in DOMAIN transactions \ {id} : transactions'[k] = transactions[k]
            /\ \A g \in KeptFields : transactions'[id][g] = transactions[id][g]
            /\ \A g \in ListFields \ {f} : transactions'[id][g] = transactions[id][g]
            /\ transactions'[id][f] = Append(transactions[id][f], p)
            /\ transactions'[id].updatedAt = now
            /\ f = "statusResults" => transactions'[id].status = transactions[id].status]_vars

\* a select callback reached T1 later than its creation and its catalog, next to T2
C32_Witness ==
    /\ DOMAIN transactions = {"T1", "T2"}
    /\ transactions["T1"].status = "selected"
    /\ transactions["T1"].catalogs = <<"pA">>
    /\ transactions["T1"].selections = <<"pA">>
    /\ transactions["T1"].createdAt = 0
    /\ transactions["T1"].updatedAt = MaxNow
    /\ transactions["T2"].updatedAt = 0
    /\ transactions["T2"].status = "searching"

\* C1: every list of every transaction is exactly the sequence of payloads the add*
\* calls of its kind delivered since the transaction was created, in arrival order:
\* nothing lost, overwritten, de-duplicated or reordered.
C1_ListsAreArrivalOrder ==
    \A id \in DOMAIN transactions : \A f \in ListFields :
        transactions[id][f] = arrived[id][f]

\* a status list holding two different payloads in the order they came, next to a duplicate-free catalog
C1_Witness ==
    \E id \in DOMAIN transactions :
        /\ transactions[id].statusResults = <<"pB", "pA">>
        /\ arrived[id].statusResults = <<"pB", "pA">>

\* the same payload delivered twice is kept twice
C1_WitnessDuplicate ==
    \E id \in DOMAIN transactions : transactions[id].catalogs = <<"pA", "pA">>

\* C2: on an existing transaction in any prior status addCatalogData, addSelectData and
\* addInitData set the status to results_ready, selected and initialized, append the
\* payload and return the updated record.
C2_AddSetsStatus ==
    [][\A id \in TxnIds, p \in Payloads :
          Known(id) =>
            /\ AddCatalogData(id, p) =>
                  /\ transactions'[id].status = "results_ready"
                  /\ Len(transactions'[id].catalogs) = Len(transactions[id].catalogs) + 1
                  /\ ret' = id
            /\ AddSelectData(id, p) =>
                  /\ transactions'[id].status = "selected"
                  /\ Len(transactions'[id].selections) = Len(transactions[id].selections) + 1
                  /\ ret' = id
            /\ AddInitData(id, p) =>
                  /\ transactions'[id].status = "initialized"
                  /\ Len(transactions'[id].initResults) = Len(transactions[id].initResults) + 1
                  /\ ret' = id]_vars

\* createTransaction(T1) and two addCatalogData(T1, ..): two catalogs, results_ready, record returned
C2_Witness ==
    /\ Known("T1")
    /\ Len(transactions["T1"].catalogs) = 2
    /\ transactions["T1"].status = "results_ready"
    /\ ret = "T1"

\* addInitData acted on a transaction that was never selected
C2_WitnessOutOfSequence ==
    \E id \in DOMAIN transactions :
        /\ transactions[id].status = "initialized"
        /\ transactions[id].selections = <<>>
        /\ transactions[id].errors # <<>>

\* C5: addStatusData on an existing transaction leaves its status as it was; statusResults
\* grows by the payload and the other four lists stay as they were.
C5_StatusDataKeepsStatus ==
    [][\A id \in TxnIds, p \in Payloads :
          (Known(id) /\ AddStatusData(id, p)) =>
            /\ transactions'[id].status = transactions[id].status
            /\ transactions'[id].statusResults = Append(transactions[id].statusResults, p)
            /\ \A f \in ListFields \ {"statusResults"} :
                  transactions'[id][f] = transactions[id][f]]_vars

\* a status update was stored and the transaction is still 'searching'
C5_Witness ==
    \E id \in DOMAIN transactions :
        /\ transactions[id].statusResults # <<>>
        /\ transactions[id].status = "searching"

\* C6: addErrorData on an existing transaction sets the status to error from any status,
\* appends to errors and leaves catalogs, selections, initResults and statusResults alone.
C6_ErrorKeepsData ==
    [][\A id \in TxnIds, p \in Payloads :
          (Known(id) /\ AddErrorData(id, p)) =>
            /\ transactions'[id].status = "error"
            /\ transactions'[id].errors = Append(transactions[id].errors, p)
            /\ \A f \in ListFields \ {"errors"} :
                  transactions'[id][f] = transactions[id][f]]_vars

\* an error arrived after a catalog: status error, the catalog still there
C6_Witness ==
    \E id \in DOMAIN transactions :
        /\ transactions[id].status = "error"
        /\ transactions[id].catalogs # <<>>
        /\ transactions[id].errors # <<>>

ReachesStore(req) ==
    /\ req.ctx # "absent"
    /\ devMode \/ req.ctx = "ok"
    /\ req.txn \in TxnIds
    /\ verifyRequest(req, devMode).valid

\* C3: an on_confirm callback for an existing transaction is stored, moves the status
\* to confirmed and is answered ACK.
C3_OnConfirmRecorded ==
    [][\A req \in Requests(HttpPayloads) :
          (ReachesStore(req) /\ Known(req.txn) /\ OnConfirm(req)) =>
            /\ http'.ack = "ACK"
            /\ transactions'[req.txn].status = "confirmed"
            /\ TotalStored' = TotalStored + 1]_vars

\* C4: an on_cancel callback for an existing transaction is stored, moves the status
\* to cancelled and is answered ACK.
C4_OnCancelRecorded ==
    [][\A req \in Requests(HttpPayloads) :
          (ReachesStore(req) /\ Known(req.txn) /\ OnCancel(req)) =>
            /\ http'.ack = "ACK"
            /\ transactions'[req.txn].status = "cancelled"
            /\ TotalStored' = TotalStored + 1]_vars

\* the step is the answer of one of the six routes that store a callback
StoringRoute(req) ==
    \/ OnSearch(req)
    \/ OnSelect(req)
    \/ OnInit(req)
    \/ OnStatus(req)
    \/ OnConfirm(req)
    \/ OnCancel(req)

\* the Authorization header of the request is missing, malformed, expired, or its
\* signature is not the key holder's signature of the body
BadHeader(req) == req.auth.sender # "keyHolder" \/ now > req.auth.expires

C11_Unauthenticated401 ==
    [][\/ /\ http' = buildNackResponse("401")
          /\ transactions' = transactions
       \/ \A req \in Requests(HttpPayloads) :
             ~(~devMode /\ BadHeader(req) /\ (StoringRoute(req) \/ OnError(req)))]_vars

\* a callback was answered NACK 401 outside DEV_MODE while the store holds a transaction
C11_Witness ==
    /\ ~devMode
    /\ http = buildNackResponse("401")
    /\ DOMAIN transactions # {}

\* C25: signature verification is off exactly in DEV_MODE: there no callback is answered
\* 401, whatever its Authorization header (absent, expired, forged); and in every other
\* mode a step that is not a rejection with 401 and an unchanged store, so one in which a
\* callback went on to the validation, the handler and the store, is the step of no
\* request whose header is absent, malformed, expired or wrongly signed.
C25_VerificationOffExactlyInDevMode ==
    [][/\ devMode => http' # buildNackResponse("401")
       /\ \/ devMode
          \/ /\ http' = buildNackResponse("401")
             /\ transactions' = transactions
          \/ \A req \in Requests(HttpPayloads) :
                (StoringRoute(req) \/ OnError(req)) => ~BadHeader(req)]_vars

\* in DEV_MODE, at a time when the key holder's first header has expired, callbacks were
\* acknowledged and stored
C25_Witness ==
    /\ devMode
    /\ now > 0
    /\ http = buildAckResponse
    /\ "T1" \in DOMAIN transactions
    /\ Len(transactions["T1"].catalogs) = 1
    /\ Len(transactions["T1"].errors) = 1

\* the status a stored callback of each kind sets
TargetStatus ==
    [catalogs |-> "results_ready", selections |-> "selected",
     initResults |-> "initialized", errors |-> "error"]

\* the list of transaction id that received a callback in this step
Received(id, f) == Len(transactions'[id][f]) > Len(transactions[id][f])

\* C33: the status is last-writer-wins. A new record is 'searching'; a step that stores
\* a catalog, select, init or error callback for a transaction sets the status that
\* belongs to the callback, whatever the status was; and every other step leaves the
\* status as it is. So the status after any sequence of callbacks is that of the most
\* recent of these callbacks, a late on_search moves a selected or initialized
\* transaction back to 'results_ready', and a later callback clears 'error'.
C33_StatusLastWriterWins ==
    [][\A id \in DOMAIN transactions' :
          IF id \notin DOMAIN transactions
          THEN transactions'[id].status = "searching"
          ELSE /\ \A f \in DOMAIN TargetStatus :
                    Received(id, f) => transactions'[id].status = TargetStatus[f]
               /\ (\A f \in DOMAIN TargetStatus : ~Received(id, f))
                    => transactions'[id].status = transactions[id].status]_vars

\* a catalog stored after an error left T1 results_ready
C33_Witness ==
    /\ "T1" \in DOMAIN transactions
    /\ transactions["T1"].status = "results_ready"
    /\ transactions["T1"].errors = <<"pA">>
    /\ transactions["T1"].catalogs = <<"pA">>
    /\ http = buildAckResponse

\* the request passes verifyAuth and its body has a context without transaction_id
NoTransactionId(req) ==
    /\ req.ctx # "absent"
    /\ req.txn = NoTxn
    /\ verifyRequest(req, devMode).valid

C13_AlwaysHttp200 ==
    [][\A req \in Requests(HttpPayloads) :
          (StoringRoute(req) \/ OnError(req)) =>
            /\ http'.status = 200
            /\ http'.ack \in {"ACK", "NACK"}]_vars

C9_RecordedBeforeSend ==
    [][\A req \in Requests(HttpPayloads) :
          (ReachesStore(req) /\ req.txn \in {s.txn : s \in sent} /\ OnSearch(req)) =>
            /\ Known(req.txn)
            /\ http' # buildNackResponse("404")]_vars

\* ================================================================ claims on concurrent handlers (SpecConc)

RECURSIVE Count(_, _)
Count(x, seq) ==
    IF seq = <<>> THEN 0
    ELSE (IF Head(seq) = x THEN 1 ELSE 0) + Count(x, Tail(seq))

\* C10: whatever the interleaving of the steps of two on_search handlers, every catalog
\* a handler stored for a transaction is in that transaction's catalogs, as often as it
\* was stored, in some order.
C10_ConcurrentCatalogsKept ==
    \A id \in DOMAIN transactions : \A p \in Payloads :
        Count(p, transactions[id].catalogs) = Count(p, arrived[id].catalogs)

\* both providers' catalogs are in T1 while one handler is again inside its chain for T1
C10_Witness ==
    /\ Known("T1")
    /\ Count("pA", transactions["T1"].catalogs) = 1
    /\ Count("pB", transactions["T1"].catalogs) = 1
    /\ cb["h1"].pc = "handler"
    /\ cb["h1"].txn = "T1"

\* ================================================================ SpecLoading: the mobile loading screen (loading.js)

MAX_POLLS == 20

MaxInFlight == 2     \* getResults calls awaiting their response at one time

\* what a poll comes back with: the status and provider count of the response, or the
\* error getResults throws
PollOutcomes ==
    {[status |-> "results_ready", providers |-> 1],
     [status |-> "results_ready", providers |-> 0],
     [status |-> "searching", providers |-> 0],
     [status |-> "error", providers |-> 0]}

\* the screen after mounting: pollCountRef.current, whether pollInterval is set, the
\* setTimeout callbacks not yet run, the calls of router.replace, and whether the
\* component is mounted
MountedScreen ==
    [fn |-> "LoadingScreen", pollCount |-> 0, pollInterval |-> TRUE, timeouts |-> 0,
     replaced |-> 0, mounted |-> TRUE, afterUnmount |-> FALSE]

\* the poll of getResults(transactionId) that tick n started
Poll(n) == [action |-> "getResults", poll |-> n]

\* router.replace({ pathname: '/results' }): the results screen replaces this one, and the
\* cleanup of the effect clears the intervals
routerReplace(screen) ==
    [screen EXCEPT !.replaced = @ + 1, !.mounted = FALSE, !.pollInterval = FALSE,
                   !.afterUnmount = @ \/ ~screen.mounted]

\* a tick of pollInterval up to its first await: past MAX_POLLS it clears the intervals
\* and navigates, else it calls getResults
PollTick ==
    /\ call.pollInterval
    /\ call.pollCount + 1 <= MAX_POLLS => Cardinality(pending) < MaxInFlight
    /\ IF call.pollCount + 1 > MAX_POLLS
       THEN /\ call' = routerReplace([call EXCEPT !.pollCount = @ + 1])
            /\ pending' = pending
       ELSE /\ call' = [call EXCEPT !.pollCount = @ + 1]
            /\ pending' = pending \cup {Poll(call.pollCount + 1)}
    /\ UNCHANGED <<transactions, arrived, now, ret, devMode, processEnv, sent, http, cb>>

\* the rest of a tick, when its getResults settles: results with a provider clear the
\* intervals and schedule the navigation; anything else, the error included, does nothing
PollSettles(r, data) ==
    /\ r \in pending
    /\ pending' = pending \ {r}
    /\ call' = IF data.status = "results_ready" /\ data.providers > 0
               THEN [call EXCEPT !.pollInterval = FALSE, !.timeouts = @ + 1]
               ELSE call
    /\ UNCHANGED <<transactions, arrived, now, ret, devMode, processEnv, sent, http, cb>>

\* the callback of setTimeout(..., 500) runs
TimeoutFires ==
    /\ call.timeouts > 0
    /\ call' = routerReplace([call EXCEPT !.timeouts = @ - 1])
    /\ UNCHANGED <<transactions, arrived, now, ret, devMode, processEnv, sent, pending, http, cb>>

\* the user leaves the screen: the cleanup of the effect clears the intervals
Unmount ==
    /\ call.mounted
    /\ call' = [call EXCEPT !.mounted = FALSE, !.pollInterval = FALSE]
    /\ UNCHANGED <<transactions, arrived, now, ret, devMode, processEnv, sent, pending, http, cb>>

InitLoading ==
    /\ transactions = EmptyStore
    /\ arrived = NoArrivals
    /\ now = 0
    /\ ret = Null
    /\ devMode = FALSE
    /\ processEnv = ServerEnv
    /\ call = MountedScreen
    /\ sent = {}
    /\ pending = {}
    /\ http = NoResponse
    /\ cb = NoCallbacks

NextLoading ==
    \/ PollTick
    \/ \E r \in pending, data \in PollOutcomes : PollSettles(r, data)
    \/ TimeoutFires
    \/ Unmount

SpecLoading == InitLoading /\ [][NextLoading]_vars

\* C40: the loading screen performs at most 20 polls and navigates exactly once per
\* screen instance, never after it was unmounted, also when the responses of polls
\* overlap or arrive after a later tick or after the unmount.  Fails: every poll that
\* settles with results schedules its own router.replace, and neither the poll in flight
\* nor the timeout is cancelled by the cleanup or by the navigation of tick 21.
C40_NavigatesOnce ==
    /\ \A r \in pending : r.poll <= MAX_POLLS
    /\ call.replaced <= 1
    /\ ~call.afterUnmount

\* the screen stops polling: pollCountRef never passes MAX_POLLS + 1, no interval is left
\* once the screen navigated or was unmounted, and polls are started by ticks alone
PollingStops ==
    /\ call.pollCount <= MAX_POLLS + 1
    /\ \A r \in pending : r.poll <= call.pollCount /\ r.poll <= MAX_POLLS
    /\ (call.replaced > 0 \/ ~call.mounted \/ call.pollCount > MAX_POLLS) => ~call.pollInterval

====
